---------------------------- MODULE Spec2Model ----------------------------
(***************************************************************************)
(* The BIAN loader scripts (src/bian/loader/00..03) as a state machine     *)
(* over one labelled property graph.                                        *)
(*                                                                          *)
(* Strings the code inspects character by character (service-domain names, *)
(* tags, derived ids) are sequences of one-character strings; strings it    *)
(* only compares for equality (business-area names, object ids) are atoms.  *)
(* An optional value is <<>> (Python None / Cypher null) or <<v>>.          *)
(* A JSON object is a record; a key the document omits is a missing field.  *)
(***************************************************************************)
EXTENDS Integers, Sequences, FiniteSets, TLC

VARIABLES
    nodes,   \* the store's nodes: records [id, label, props]
    edges,   \* the store's relationships: <<from id, type, to id>> -> how many
    clock,   \* how many ingestion passes have started
    last,    \* what the operation that ran last reported
    dall,    \* delete_all's loop: [pc, total]
    pend,    \* load_all_yaml between find_service_domain and load_yaml_to_neo4j
    pipe     \* the two-run pipeline: its documents, run ids and stage

vars == <<nodes, edges, clock, last, dall, pend, pipe>>

(***************************************************************************)
(* Bounds of the model.                                                     *)
(***************************************************************************)
\* a pass takes its run id from the clock when it starts ("bian-<timestamp>"):
\* the passes of one behaviour have the run ids 1, 2, .. MaxRun
MaxRun == 3
\* delete_all's batch_size (10000 in the source), scaled to the model's stores
BatchSize == 2
\* how many foreign (non-BIAN) nodes another application keeps in the store
MaxOther == 1

RunIds == 1..MaxRun

None == <<>>
Some(v) == <<v>>

(***************************************************************************)
(* Characters and strings.                                                  *)
(***************************************************************************)
UpperCase == <<"A","B","C","D","E","F","G","H","I","J","K","L","M",
               "N","O","P","Q","R","S","T","U","V","W","X","Y","Z">>
LowerCase == <<"a","b","c","d","e","f","g","h","i","j","k","l","m",
               "n","o","p","q","r","s","t","u","v","w","x","y","z">>
Digits == {"0","1","2","3","4","5","6","7","8","9"}

Range(s) == {s[i] : i \in DOMAIN s}

\* str.lower() / Cypher toLower() on one character
LowerChar(c) ==
    IF \E i \in DOMAIN UpperCase : UpperCase[i] = c
    THEN LowerCase[CHOOSE i \in DOMAIN UpperCase : UpperCase[i] = c]
    ELSE c

Lower(s) == [i \in DOMAIN s |-> LowerChar(s[i])]

IsLowerAlnum(c) == c \in Range(LowerCase) \cup Digits

\* Cypher replace(s, c, '') for a one-character c
RemoveChar(s, c) ==
    LET Keep(x) == x # c IN SelectSeq(s, Keep)

\* Python `a.startswith(p)`
StartsWith(a, p) == Len(p) <= Len(a) /\ SubSeq(a, 1, Len(p)) = p

\* Python `p in a` / Cypher `a CONTAINS p`
Contains(a, p) ==
    \E i \in 0..(Len(a) - Len(p)) : SubSeq(a, i + 1, i + Len(p)) = p

\* Python a[:n]
Prefix(a, n) == SubSeq(a, 1, IF Len(a) < n THEN Len(a) ELSE n)

\* Python a.replace(p, "") for a non-empty p: leftmost occurrences, left to right
RECURSIVE ReplaceAll(_, _)
ReplaceAll(a, p) ==
    IF Len(a) < Len(p) \/ Len(p) = 0 THEN a
    ELSE IF SubSeq(a, 1, Len(p)) = p
         THEN ReplaceAll(SubSeq(a, Len(p) + 1, Len(a)), p)
         ELSE <<a[1]>> \o ReplaceAll(Tail(a), p)

\* Python a.strip(): blanks off both ends
RECURSIVE LStrip(_)
LStrip(a) == IF a # <<>> /\ a[1] = " " THEN LStrip(Tail(a)) ELSE a
RECURSIVE RStrip(_)
RStrip(a) ==
    IF a # <<>> /\ a[Len(a)] = " " THEN RStrip(SubSeq(a, 1, Len(a) - 1)) ELSE a
Strip(a) == RStrip(LStrip(a))

\* the substitution without the lower-casing
NormalizeKeepsCase(name) == SelectSeq(name, IsLowerAlnum)

\* re.sub(r'[^a-z0-9]', '', name.lower())
normalize_name(name) == SelectSeq(Lower(name), IsLowerAlnum)

(***************************************************************************)
(* The store.  A node is [id, label, props]; props maps the property names  *)
(* the node has to their values.  The id stands for the store's internal    *)
(* node identity: <<label, key, k>> with k the number of nodes of that      *)
(* label and key that existed when the node was created.                    *)
(***************************************************************************)
BIAN_LABELS == <<"BusinessArea", "BusinessDomain", "BIANServiceDomain",
                 "BIANControlRecord", "BIANBehaviorQualifier",
                 "BIANOperation", "BIANSchema">>

\* create_constraints: the property that must be unique per label
KeyProp(label) ==
    CASE label = "BusinessArea"      -> "name"
      [] label = "BusinessDomain"    -> "name"
      [] label = "BIANServiceDomain" -> "object_id"
      [] OTHER                       -> "id"

NoEdges == [e \in {} |-> 0]

Graph(ns, es) == [nodes |-> ns, edges |-> es]

Has(n, p) == p \in DOMAIN n.props

\* MATCH (n:label {prop: val})
Match(G, label, prop, val) ==
    {n \in G.nodes : n.label = label /\ Has(n, prop) /\ n.props[prop] = val}

Labelled(G, label) == {n \in G.nodes : n.label = label}

\* SET n.p = v for every p of `set`; SET n.p = null removes the property
SetProps(props, set) ==
    LET keep == {p \in DOMAIN props : ~(p \in DOMAIN set /\ set[p] = None)}
                \cup {p \in DOMAIN set : set[p] # None}
    IN  [p \in keep |-> IF p \in DOMAIN set THEN set[p][1] ELSE props[p]]

\* MERGE (a)-[:type]->(b): nothing when the relationship is there
CreateEdge(es, e) ==
    [x \in DOMAIN es \cup {e} |->
        IF x # e THEN es[x] ELSE IF x \in DOMAIN es THEN es[x] + 1 ELSE 1]
\* CREATE in MERGE's place
MergeEdgeAlwaysCreates(es, e) == CreateEdge(es, e)
MergeEdge(es, e) == IF e \in DOMAIN es THEN es ELSE CreateEdge(es, e)

\* MERGE (n:label {prop: val}): the nodes it binds, creating one when none matches
CreateNode(G, label, prop, val) ==
    [id |-> <<label, val, Cardinality(Match(G, label, prop, val))>>,
     label |-> label, props |-> (prop :> val)]
\* CREATE in MERGE's place
MergeNodeAlwaysCreates(G, label, prop, val) == {CreateNode(G, label, prop, val)}
MergeNode(G, label, prop, val) ==
    IF Match(G, label, prop, val) # {} THEN Match(G, label, prop, val)
    ELSE {CreateNode(G, label, prop, val)}

\* the matched nodes deleted with their relationships and one node created in
\* their place
UpsertNodeReplaces(G, label, prop, val, set) ==
    LET gone == {n.id : n \in Match(G, label, prop, val)}
        keep == {e \in DOMAIN G.edges : e[1] \notin gone /\ e[3] \notin gone}
        rest == Graph({n \in G.nodes : n.id \notin gone}, [e \in keep |-> G.edges[e]])
        new  == CreateNode(rest, label, prop, val)
    IN  Graph(rest.nodes \cup {[new EXCEPT !.props = SetProps(new.props, set)]},
              rest.edges)

\* MERGE (n:label {prop: val}) SET n += set
UpsertNode(G, label, prop, val, set) ==
    LET bound == MergeNode(G, label, prop, val)
        ids   == {n.id : n \in bound}
        rest  == {n \in G.nodes : n.id \notin ids}
    IN  Graph(rest \cup {[n EXCEPT !.props = SetProps(n.props, set)] : n \in bound},
              G.edges)

\* CREATE in MERGE's place, for every pair of the statement's rows
RECURSIVE MergeEdgesAlwaysCreates(_, _)
MergeEdgesAlwaysCreates(es, todo) ==
    IF todo = {} THEN es
    ELSE LET e == CHOOSE x \in todo : TRUE
         IN  MergeEdgesAlwaysCreates(CreateEdge(es, e), todo \ {e})

RECURSIVE MergeEdges(_, _)
MergeEdges(es, todo) ==
    IF todo = {} THEN es
    ELSE LET e == CHOOSE x \in todo : TRUE
         IN  MergeEdges(MergeEdge(es, e), todo \ {e})

\* MATCH (p:plabel {pprop: pval}) MERGE (c:label {prop: val}) SET c += set
\* MERGE (p)-[:type]->(c).  No row from the MATCH: the statement does nothing.
UpsertChild(G, plabel, pprop, pval, label, prop, val, set, type) ==
    LET parents == Match(G, plabel, pprop, pval)
        G2      == UpsertNode(G, label, prop, val, set)
        kids    == Match(G2, label, prop, val)
    IN  IF parents = {} THEN G
        ELSE Graph(G2.nodes,
                   MergeEdges(G2.edges,
                              {<<p.id, type, c.id>> : p \in parents, c \in kids}))

\* DETACH DELETE of the nodes `gone`
DetachDelete(G, gone) ==
    LET ids  == {n.id : n \in gone}
        keep == {e \in DOMAIN G.edges : e[1] \notin ids /\ e[3] \notin ids}
    IN  Graph(G.nodes \ gone, [e \in keep |-> G.edges[e]])


(***************************************************************************)
(* 01_load_hierarchy.py                                                     *)
(***************************************************************************)
\* dict.get(key): None when the document omits the key
Opt(d, key) == IF key \in DOMAIN d THEN Some(d[key]) ELSE None
\* dict.get(key, default)
Get(d, key, default) == IF key \in DOMAIN d THEN d[key] ELSE default

RECURSIVE Concat(_)
Concat(ss) == IF ss = <<>> THEN <<>> ELSE Head(ss) \o Concat(Tail(ss))

Raise == [k |-> "raise"]

\* datetime() in a pass whose run id is r: run ids are the pass's start time, so
\* a timestamp is modelled by the run it was taken in
Now(run) == Some(run)

\* the statements load_hierarchy issues for a document, in the order of its loops;
\* a subscript on a missing key (ba["business_area"], bd["business_domain"],
\* sd["name"]) raises KeyError where the loop reaches it
SdSteps(bd_name, sd) ==
    IF "name" \notin DOMAIN sd THEN <<Raise>>
    ELSE <<[k |-> "SD", bd_name |-> bd_name, name |-> sd.name,
            object_id |-> Opt(sd, "object_id"), url |-> Opt(sd, "url")]>>

BdSteps(ba_name, bd) ==
    IF "business_domain" \notin DOMAIN bd THEN <<Raise>>
    ELSE LET sds == Get(bd, "service_domains", <<>>)
         IN  <<[k |-> "BD", ba_name |-> ba_name, bd_name |-> bd.business_domain]>>
             \o Concat([i \in DOMAIN sds |-> SdSteps(bd.business_domain, sds[i])])

\* the business area's statement after those of its business domains
BaStepsChildrenFirst(ba) ==
    IF "business_area" \notin DOMAIN ba THEN <<Raise>>
    ELSE LET bds == Get(ba, "business_domains", <<>>)
         IN  Concat([i \in DOMAIN bds |-> BdSteps(ba.business_area, bds[i])])
             \o <<[k |-> "BA", ba_name |-> ba.business_area]>>

BaSteps(ba) ==
    IF "business_area" \notin DOMAIN ba THEN <<Raise>>
    ELSE LET bds == Get(ba, "business_domains", <<>>)
         IN  <<[k |-> "BA", ba_name |-> ba.business_area]>>
             \o Concat([i \in DOMAIN bds |-> BdSteps(ba.business_area, bds[i])])

HierarchySteps(hierarchy) == Concat([i \in DOMAIN hierarchy |-> BaSteps(hierarchy[i])])

\* MERGE (ba:BusinessArea {name}) SET ba._imported_at, ba._run_id
WriteBA(G, s, run) ==
    UpsertNode(G, "BusinessArea", "name", s.ba_name,
               [_imported_at |-> Now(run), _run_id |-> Some(run)])

\* MATCH (ba) MERGE (bd:BusinessDomain {name}) SET ... MERGE (ba)-[:HAS_DOMAIN]->(bd)
WriteBD(G, s, run) ==
    UpsertChild(G, "BusinessArea", "name", s.ba_name,
                "BusinessDomain", "name", s.bd_name,
                [_imported_at |-> Now(run), _run_id |-> Some(run)], "HAS_DOMAIN")

\* MATCH (bd) MERGE (sd:BIANServiceDomain {object_id}) SET sd.name, sd.url, ...
\* MERGE (bd)-[:HAS_SERVICE]->(sd)
WriteSD(G, s, run) ==
    UpsertChild(G, "BusinessDomain", "name", s.bd_name,
                "BIANServiceDomain", "object_id", s.object_id[1],
                [name |-> Some(s.name), url |-> s.url,
                 _imported_at |-> Now(run), _run_id |-> Some(run)], "HAS_SERVICE")

\* the store refuses MERGE on a null key: the statement raises
StepRaises(s) == s.k = "raise" \/ (s.k = "SD" /\ s.object_id = None)

\* load_hierarchy(run_id): the statements one after the other, each its own
\* transaction; an exception ends the pass where it is (nothing catches it)
RECURSIVE RunHierarchy(_, _, _, _)
RunHierarchy(st, steps, i, run) ==
    IF i > Len(steps) THEN st
    ELSE LET s == steps[i] IN
         IF StepRaises(s) THEN [st EXCEPT !.ok = FALSE]
         ELSE RunHierarchy(
                CASE s.k = "BA" -> [st EXCEPT !.G = WriteBA(st.G, s, run),
                                               !.ba_count = @ + 1]
                  [] s.k = "BD" -> [st EXCEPT !.G = WriteBD(st.G, s, run),
                                               !.bd_count = @ + 1]
                  [] s.k = "SD" -> [st EXCEPT !.G = WriteSD(st.G, s, run),
                                               !.sd_count = @ + 1],
                steps, i + 1, run)

load_hierarchy(G, hierarchy, run) ==
    RunHierarchy([G |-> G, ok |-> TRUE, ba_count |-> 0, bd_count |-> 0, sd_count |-> 0],
                 HierarchySteps(hierarchy), 1, run)

(***************************************************************************)
(* 02_enrich_domains.py                                                     *)
(* An enrichment file is [object_id, data]: the file's stem and its JSON    *)
(* object.                                                                  *)
(***************************************************************************)
KNOWN_PATTERNS ==
    <<"Fulfill", "Manage", "Administer", "Register", "Maintain",
      "Direct", "Monitor", "Analyze", "Evaluate", "Execute", "Operate",
      "Allocate", "Agree Terms", "Design", "Develop", "Process", "Track">>

S_Stars == <<"*", "*">>
S_GeneralComment ==
    <<"G","e","n","e","r","a","l"," ","c","o","m","m","e","n","t">>

\* relations_all.realized_by[0].name when it is a known pattern, else None
extract_functional_pattern(data) ==
    LET relations_all == Get(data, "relations_all", <<>>)
        realized_by   == Get(relations_all, "realized_by", <<>>)
        first_name    == Get(realized_by[1], "name", "")
    IN  IF realized_by = <<>> THEN None
        ELSE IF \E i \in DOMAIN KNOWN_PATTERNS : KNOWN_PATTERNS[i] = first_name
             THEN Some(first_name)
             ELSE None

\* [f.strip() for f in key_features
\*  if f and f.strip() and f.strip() not in ["**", "General comment"]]
CleanFeatures(key_features) ==
    LET Keep(f) == f # <<>> /\ Strip(f) # <<>>
                   /\ Strip(f) \notin {S_Stars, S_GeneralComment}
        kept == SelectSeq(key_features, Keep)
    IN  [i \in DOMAIN kept |-> Strip(kept[i])]

\* every document with an error field taken for a no-data document
AnyErrorIsNoData(data) == "error" \in DOMAIN data

\* "error" in data and len(data) <= 4
IsNoData(data) == "error" \in DOMAIN data /\ Cardinality(DOMAIN data) <= 4

\* MERGE in MATCH's place: the service domain created when none has the id
EnrichNodeMerges(G, object_id, data, run) ==
    UpsertNode(G, "BIANServiceDomain", "object_id", object_id,
               [role     |-> Some(Get(data, "role_definition", "")),
                _run_id  |-> Some(run)])

\* the SET of enrich_domains: MATCH (sd:BIANServiceDomain {object_id}) SET ...
\* (no node matches: the statement does nothing and raises nothing)
EnrichNode(G, object_id, data, run) ==
    LET set == [role               |-> Some(Get(data, "role_definition", "")),
                example_of_use     |-> Some(Get(data, "example_of_use", "")),
                executive_summary  |-> Some(Get(data, "executive_summary", "")),
                key_features       |-> Some(CleanFeatures(Get(data, "key_features", <<>>))),
                functional_pattern |-> extract_functional_pattern(data),
                _enriched_at       |-> Now(run),
                _run_id            |-> Some(run)]
        hit == Match(G, "BIANServiceDomain", "object_id", object_id)
        ids == {n.id : n \in hit}
    IN  Graph({n \in G.nodes : n.id \notin ids}
              \cup {[n EXCEPT !.props = SetProps(n.props, set)] : n \in hit},
              G.edges)

\* enrich_domains(run_id): one file after the other
RECURSIVE RunEnrich(_, _, _, _)
RunEnrich(st, files, i, run) ==
    IF i > Len(files) THEN st
    ELSE LET f == files[i] IN
         RunEnrich(
            IF IsNoData(f.data)
            THEN [st EXCEPT !.error_count = @ + 1]
            ELSE [st EXCEPT !.G = EnrichNode(st.G, f.object_id, f.data, run),
                            !.enriched_count = @ + 1],
            files, i + 1, run)

enrich_domains(G, files, run) ==
    RunEnrich([G |-> G, enriched_count |-> 0, error_count |-> 0], files, 1, run)

\* MATCH (source {object_id: a}) MATCH (target {object_id: b})
\* MERGE (source)-[:TRIGGERS]->(target)
MergeTriggers(G, a, b) ==
    Graph(G.nodes,
          MergeEdges(G.edges,
                     {<<s.id, "TRIGGERS", t.id>> :
                        s \in Match(G, "BIANServiceDomain", "object_id", a),
                        t \in Match(G, "BIANServiceDomain", "object_id", b)}))

\* target_id and target_id != object_id
Declared(ref, object_id) ==
    Opt(ref, "object_id") # None /\ ref.object_id # "" /\ ref.object_id # object_id

\* the `for target in relations.get("triggers", [])` loop of one file
RECURSIVE RunTriggers(_, _, _, _)
RunTriggers(st, object_id, refs, i) ==
    IF i > Len(refs) THEN st
    ELSE RunTriggers(
            IF Declared(refs[i], object_id)
            THEN [st EXCEPT !.G = MergeTriggers(st.G, object_id, refs[i].object_id),
                            !.triggers_count = @ + 1]
            ELSE st,
            object_id, refs, i + 1)

\* the `for source in relations.get("triggered_by", [])` loop of one file
RECURSIVE RunTriggeredBy(_, _, _, _)
RunTriggeredBy(st, object_id, refs, i) ==
    IF i > Len(refs) THEN st
    ELSE RunTriggeredBy(
            IF Declared(refs[i], object_id)
            THEN [st EXCEPT !.G = MergeTriggers(st.G, refs[i].object_id, object_id),
                            !.triggered_by_count = @ + 1]
            ELSE st,
            object_id, refs, i + 1)

\* create_relationships(): one file after the other
RECURSIVE RunRelationships(_, _, _)
RunRelationships(st, files, i) ==
    IF i > Len(files) THEN st
    ELSE LET f == files[i]
             relations == Get(f.data, "relations_service_domains", <<>>)
         IN  RunRelationships(
                IF IsNoData(f.data) THEN st
                ELSE RunTriggeredBy(
                        RunTriggers(st, f.object_id, Get(relations, "triggers", <<>>), 1),
                        f.object_id, Get(relations, "triggered_by", <<>>), 1),
                files, i + 1)

create_relationships(G, files) ==
    RunRelationships([G |-> G, triggers_count |-> 0, triggered_by_count |-> 0], files, 1)

(***************************************************************************)
(* 03_load_yaml.py                                                          *)
(* A YAML file is [stem, spec]; spec.paths lists the (path, method, op_data)*)
(* entries and spec.schemas the (name, definition) entries in the order the *)
(* parsed mappings are iterated.  A file that does not parse has no spec.   *)
(***************************************************************************)
ACTION_TERMS ==
    <<<<"I", "n", "i", "t", "i", "a", "t", "e">>,
     <<"C", "r", "e", "a", "t", "e">>,
     <<"U", "p", "d", "a", "t", "e">>,
     <<"R", "e", "t", "r", "i", "e", "v", "e">>,
     <<"E", "x", "e", "c", "u", "t", "e">>,
     <<"R", "e", "q", "u", "e", "s", "t">>,
     <<"N", "o", "t", "i", "f", "y">>,
     <<"E", "x", "c", "h", "a", "n", "g", "e">>,
     <<"C", "o", "n", "t", "r", "o", "l">>,
     <<"R", "e", "g", "i", "s", "t", "e", "r">>,
     <<"C", "a", "p", "t", "u", "r", "e">>,
     <<"G", "r", "a", "n", "t">>,
     <<"E", "v", "a", "l", "u", "a", "t", "e">>,
     <<"P", "r", "o", "v", "i", "d", "e">>,
     <<"A", "l", "l", "o", "c", "a", "t", "e">>>>

S_Unknown == <<"U", "n", "k", "n", "o", "w", "n">>
S_CRPrefix == <<"C", "R", " ", "-", " ">>
S_BQPrefix == <<"B", "Q", " ", "-", " ">>
S_HTTPError == <<"H", "T", "T", "P", "E", "r", "r", "o", "r">>
S_CRInfix == <<"-", "C", "R", "-">>
S_BQInfix == <<"-", "B", "Q", "-">>
S_OPInfix == <<"-", "O", "P", "-">>
S_SchemaInfix == <<"-", "S", "C", "H", "E", "M", "A", "-">>
\* normalized[:15]
PartialLen == 15

\* str.upper() on one character
UpperChar(c) ==
    IF \E i \in DOMAIN LowerCase : LowerCase[i] = c
    THEN UpperCase[CHOOSE i \in DOMAIN LowerCase : LowerCase[i] = c]
    ELSE c
Upper(s) == [i \in DOMAIN s |-> UpperChar(s[i])]

\* the first term of ACTION_TERMS, in the list's order, that the operationId
\* starts with or contains
TermHit(operation_id, term) ==
    StartsWith(operation_id, term) \/ Contains(operation_id, term)
extract_action_term(operation_id) ==
    IF \E i \in DOMAIN ACTION_TERMS : TermHit(operation_id, ACTION_TERMS[i])
    THEN ACTION_TERMS[CHOOSE i \in DOMAIN ACTION_TERMS :
                        /\ TermHit(operation_id, ACTION_TERMS[i])
                        /\ \A j \in 1..(i - 1) : ~TermHit(operation_id, ACTION_TERMS[j])]
    ELSE S_Unknown

\* the derived ids
CrId(sd_id, target_name) == sd_id \o S_CRInfix \o normalize_name(target_name)
BqId(sd_id, target_name) == sd_id \o S_BQInfix \o normalize_name(target_name)
OpId(sd_id, operation_id) == sd_id \o S_OPInfix \o operation_id
SchemaId(sd_id, schema_name) == sd_id \o S_SchemaInfix \o normalize_name(schema_name)

\* tag.replace("CR - ", "").strip()
TargetName(tag, prefix) == Strip(ReplaceAll(tag, prefix))

\* the first tag's kind: "CR", "BQ" or none
TargetType(tag) ==
    IF StartsWith(tag, S_CRPrefix) THEN "CR"
    ELSE IF StartsWith(tag, S_BQPrefix) THEN "BQ" ELSE "none"

\* the entries of paths that have a first tag
Tagged(spec) ==
    LET HasTag(e) == Get(e.op_data, "tags", <<>>) # <<>>
    IN  SelectSeq(Get(spec, "paths", <<>>), HasTag)

\* dict insertion: the values of a dict keyed by `name`, in first-insertion order
RECURSIVE DictValues(_, _)
DictValues(items, seen) ==
    IF items = <<>> THEN <<>>
    ELSE IF Head(items).name \in seen THEN DictValues(Tail(items), seen)
         ELSE <<Head(items)>> \o DictValues(Tail(items), seen \cup {Head(items).name})

TargetsOf(spec, sd_id, kind) ==
    LET es == Tagged(spec)
        Is(e) == TargetType(e.op_data.tags[1]) = kind
        mine == SelectSeq(es, Is)
    IN  DictValues(
          [i \in DOMAIN mine |->
             LET name == TargetName(mine[i].op_data.tags[1],
                                    IF kind = "CR" THEN S_CRPrefix ELSE S_BQPrefix)
             IN  [id |-> IF kind = "CR" THEN CrId(sd_id, name) ELSE BqId(sd_id, name),
                  name |-> name]],
          {})

OperationsOf(spec, sd_id) ==
    LET es == Tagged(spec)
        Is(e) == /\ TargetType(e.op_data.tags[1]) # "none"
                 /\ Get(e.op_data, "operationId", <<>>) # <<>>
        mine == SelectSeq(es, Is)
    IN  [i \in DOMAIN mine |->
           LET d == mine[i].op_data
               kind == TargetType(d.tags[1])
           IN  [id |-> OpId(sd_id, d.operationId),
                name |-> d.operationId,
                action_term |-> extract_action_term(d.operationId),
                summary |-> Get(d, "summary", ""),
                http_method |-> Upper(mine[i].method),
                path |-> mine[i].path,
                target_type |-> kind,
                target_name |-> TargetName(d.tags[1],
                                  IF kind = "CR" THEN S_CRPrefix ELSE S_BQPrefix)]]

SchemasOf(spec, sd_id) ==
    LET NotReserved(e) == e.name # S_HTTPError
        mine == SelectSeq(Get(spec, "schemas", <<>>), NotReserved)
    IN  [i \in DOMAIN mine |->
           [id |-> SchemaId(sd_id, mine[i].name),
            name |-> mine[i].name,
            type |-> Get(mine[i].def, "type", "object")]]

parse_yaml_file(file) ==
    LET spec == file.spec
        sd_name == Get(Get(spec, "info", <<>>), "title", file.stem)
        sd_id == normalize_name(sd_name)
    IN  [sd_name |-> sd_name,
         sd_id |-> sd_id,
         control_records |-> TargetsOf(spec, sd_id, "CR"),
         behavior_qualifiers |-> TargetsOf(spec, sd_id, "BQ"),
         operations |-> OperationsOf(spec, sd_id),
         schemas |-> SchemasOf(spec, sd_id)]

\* The rows of a query come in the store's order, which no query fixes:
\* `order` lists the object ids in the order the store scans them, and
\* result[0] is the row of the first of them.
FirstRow(rows, order) ==
    LET ids == {n.props["object_id"] : n \in rows}
    IN  order[CHOOSE i \in DOMAIN order :
                 /\ order[i] \in ids
                 /\ \A j \in 1..(i - 1) : order[j] \notin ids]

ServiceDomains(G) == {n \in Labelled(G, "BIANServiceDomain") : Has(n, "name")}

\* WHERE sd.name = $name
ExactRows(G, sd_name) == {n \in ServiceDomains(G) : n.props["name"] = sd_name}
\* WHERE toLower(sd.name) = toLower($name)
CaseRows(G, sd_name) ==
    {n \in ServiceDomains(G) : Lower(n.props["name"]) = Lower(sd_name)}
\* WHERE toLower(replace(replace(replace(sd.name, ' ', ''), '-', ''), '&', ''))
\*       = $normalized
NormalizedRows(G, sd_name) ==
    {n \in ServiceDomains(G) :
        Lower(RemoveChar(RemoveChar(RemoveChar(n.props["name"], " "), "-"), "&"))
          = normalize_name(sd_name)}
\* WITH sd, toLower(replace(replace(sd.name, ' ', ''), '-', '')) AS norm_name
\* WHERE norm_name CONTAINS $partial OR $partial CONTAINS norm_name
PartialRows(G, sd_name) ==
    LET partial == Prefix(normalize_name(sd_name), PartialLen)
    IN  {n \in ServiceDomains(G) :
            LET norm_name == Lower(RemoveChar(RemoveChar(n.props["name"], " "), "-"))
            IN  Contains(norm_name, partial) \/ Contains(partial, norm_name)}

\* None, or the object id of the first row of the first query that has rows
find_service_domain(G, sd_name, order) ==
    IF ExactRows(G, sd_name) # {} THEN Some(FirstRow(ExactRows(G, sd_name), order))
    ELSE IF CaseRows(G, sd_name) # {} THEN Some(FirstRow(CaseRows(G, sd_name), order))
    ELSE IF NormalizedRows(G, sd_name) # {}
         THEN Some(FirstRow(NormalizedRows(G, sd_name), order))
    ELSE IF PartialRows(G, sd_name) # {}
         THEN Some(FirstRow(PartialRows(G, sd_name), order))
    ELSE None

Prov(run) == [_imported_at |-> Now(run), _run_id |-> Some(run)]

WriteCR(G, sd_object_id, cr, run) ==
    UpsertChild(G, "BIANServiceDomain", "object_id", sd_object_id,
                "BIANControlRecord", "id", cr.id,
                [name |-> Some(cr.name)] @@ Prov(run), "HAS_CR")

WriteBQ(G, sd_object_id, bq, run) ==
    UpsertChild(G, "BIANServiceDomain", "object_id", sd_object_id,
                "BIANBehaviorQualifier", "id", bq.id,
                [name |-> Some(bq.name)] @@ Prov(run), "HAS_BQ")

WriteOperation(G, sd_object_id, op, run) ==
    UpsertChild(G, "BIANServiceDomain", "object_id", sd_object_id,
                "BIANOperation", "id", op.id,
                [name |-> Some(op.name), action_term |-> Some(op.action_term),
                 summary |-> Some(op.summary), http_method |-> Some(op.http_method),
                 path |-> Some(op.path)] @@ Prov(run), "HAS_OPERATION")

\* MATCH (op:BIANOperation {id}) MATCH (target {id: target_id})
\* MERGE (op)-[:FOR_CR | FOR_BQ]->(target)
LinkOperation(G, sd_id, op) ==
    LET isCR == op.target_type = "CR"
        target_id == IF isCR THEN CrId(sd_id, op.target_name)
                     ELSE BqId(sd_id, op.target_name)
    IN  Graph(G.nodes,
              MergeEdges(G.edges,
                 {<<o.id, IF isCR THEN "FOR_CR" ELSE "FOR_BQ", t.id>> :
                    o \in Match(G, "BIANOperation", "id", op.id),
                    t \in Match(G, IF isCR THEN "BIANControlRecord"
                                   ELSE "BIANBehaviorQualifier", "id", target_id)}))

WriteSchema(G, sd_object_id, schema, run) ==
    UpsertChild(G, "BIANServiceDomain", "object_id", sd_object_id,
                "BIANSchema", "id", schema.id,
                [name |-> Some(schema.name), type |-> Some(schema.type)] @@ Prov(run),
                "HAS_SCHEMA")

RECURSIVE WriteCRs(_, _, _, _, _)
WriteCRs(G, sd_object_id, crs, i, run) ==
    IF i > Len(crs) THEN G
    ELSE WriteCRs(WriteCR(G, sd_object_id, crs[i], run), sd_object_id, crs, i + 1, run)

RECURSIVE WriteBQs(_, _, _, _, _)
WriteBQs(G, sd_object_id, bqs, i, run) ==
    IF i > Len(bqs) THEN G
    ELSE WriteBQs(WriteBQ(G, sd_object_id, bqs[i], run), sd_object_id, bqs, i + 1, run)

RECURSIVE WriteOperations(_, _, _, _, _, _)
WriteOperations(G, sd_object_id, sd_id, ops, i, run) ==
    IF i > Len(ops) THEN G
    ELSE WriteOperations(
            LinkOperation(WriteOperation(G, sd_object_id, ops[i], run), sd_id, ops[i]),
            sd_object_id, sd_id, ops, i + 1, run)

RECURSIVE WriteSchemas(_, _, _, _, _)
WriteSchemas(G, sd_object_id, schemas, i, run) ==
    IF i > Len(schemas) THEN G
    ELSE WriteSchemas(WriteSchema(G, sd_object_id, schemas[i], run),
                      sd_object_id, schemas, i + 1, run)

\* load_yaml_to_neo4j: control records, behavior qualifiers, operations, schemas
load_yaml_to_neo4j(G, yaml_data, sd_object_id, run) ==
    WriteSchemas(
        WriteOperations(
            WriteBQs(
                WriteCRs(G, sd_object_id, yaml_data.control_records, 1, run),
                sd_object_id, yaml_data.behavior_qualifiers, 1, run),
            sd_object_id, yaml_data.sd_id, yaml_data.operations, 1, run),
        sd_object_id, yaml_data.schemas, 1, run)

\* a loop whose `continue` on a title nothing matches is a `break`
RECURSIVE RunYamlStopsAtUnmatched(_, _, _, _, _)
RunYamlStopsAtUnmatched(st, files, i, run, order) ==
    IF i > Len(files) THEN st
    ELSE LET f == files[i] IN
         IF "spec" \notin DOMAIN f
         THEN RunYamlStopsAtUnmatched([st EXCEPT !.errors = Append(@, f.stem)],
                                      files, i + 1, run, order)
         ELSE LET yaml_data == parse_yaml_file(f)
                  found == find_service_domain(st.G, yaml_data.sd_name, order)
              IN  IF found = None \/ found = Some("")
                  THEN [st EXCEPT !.not_matched = Append(@, yaml_data.sd_name)]
                  ELSE RunYamlStopsAtUnmatched(
                          [st EXCEPT !.G = load_yaml_to_neo4j(st.G, yaml_data,
                                                              found[1], run),
                                     !.loaded = @ + 1],
                          files, i + 1, run, order)

\* load_all_yaml(run_id): one file after the other; a file that raises is
\* listed in errors, a title nothing matches in not_matched
RECURSIVE RunYaml(_, _, _, _, _)
RunYaml(st, files, i, run, order) ==
    IF i > Len(files) THEN st
    ELSE LET f == files[i] IN
         RunYaml(
            IF "spec" \notin DOMAIN f
            THEN [st EXCEPT !.errors = Append(@, f.stem)]
            ELSE LET yaml_data == parse_yaml_file(f)
                     found == find_service_domain(st.G, yaml_data.sd_name, order)
                 IN  IF found = None \/ found = Some("")
                     THEN [st EXCEPT !.not_matched = Append(@, yaml_data.sd_name)]
                     ELSE [st EXCEPT !.G = load_yaml_to_neo4j(st.G, yaml_data,
                                                              found[1], run),
                                     !.loaded = @ + 1],
            files, i + 1, run, order)

load_all_yaml(G, files, run, order) ==
    RunYaml([G |-> G, loaded |-> 0, not_matched |-> <<>>, errors |-> <<>>],
            files, 1, run, order)

(***************************************************************************)
(* 00_clear_database.py                                                     *)
(***************************************************************************)
\* delete_by_run_id: MATCH (n {_run_id: $run_id}) DETACH DELETE n RETURN count(*)
\* WHERE n._run_id <= $run_id in place of the equality
RunNodesUpTo(G, run) == {n \in G.nodes : Has(n, "_run_id") /\ n.props["_run_id"] <= run}
RunNodes(G, run) == {n \in G.nodes : Has(n, "_run_id") /\ n.props["_run_id"] = run}
delete_by_run_id(G, run) ==
    [G |-> DetachDelete(G, RunNodes(G, run)), deleted |-> Cardinality(RunNodes(G, run))]

\* delete_bian_only: for label in BIAN_LABELS: MATCH (n:label) DETACH DELETE n
RECURSIVE DeleteLabels(_, _, _)
DeleteLabels(st, labels, i) ==
    IF i > Len(labels) THEN st
    ELSE DeleteLabels(
            [G |-> DetachDelete(st.G, Labelled(st.G, labels[i])),
             deleted |-> st.deleted + Cardinality(Labelled(st.G, labels[i]))],
            labels, i + 1)
\* MATCH (n) without the label
DeleteEveryLabel(G) == [G |-> DetachDelete(G, G.nodes), deleted |-> Cardinality(G.nodes)]
delete_bian_only(G) == DeleteLabels([G |-> G, deleted |-> 0], BIAN_LABELS, 1)

\* one round of delete_all's loop: MATCH (n) WITH n LIMIT batch_size: any
\* batch_size nodes (all of them when there are fewer)
\* a loop that ends on the first batch that is not full
BatchesFullOnly(G) ==
    {b \in SUBSET G.nodes :
        Cardinality(b) = IF Cardinality(G.nodes) < BatchSize THEN 0 ELSE BatchSize}
Batches(G) ==
    {b \in SUBSET G.nodes :
        Cardinality(b) = IF Cardinality(G.nodes) < BatchSize
                         THEN Cardinality(G.nodes) ELSE BatchSize}

\* show_import_runs: the run ids main offers for deletion
ImportRuns(G) == {n.props["_run_id"] : n \in {m \in G.nodes : Has(m, "_run_id")}}

(***************************************************************************)
(* Input documents of the model.                                            *)
(***************************************************************************)
S_Ab == <<"A", "b">>
S_Abc == <<"A", "b", "c">>

Sd1 == [name |-> S_Ab, object_id |-> "SD1", url |-> "u1"]
Sd2 == [name |-> S_Abc, object_id |-> "SD2", url |-> "u1"]
\* SD2 under SD1's name and without a url
Sd2Renamed == [name |-> S_Ab, object_id |-> "SD2"]
\* a record without object_id
SdNoId == [name |-> S_Abc]

HDoc(ba, bd, sds) ==
    <<[business_area |-> ba,
       business_domains |-> <<[business_domain |-> bd, service_domains |-> sds]>>]>>

HierarchyDocs ==
    {HDoc("BA1", "BD1", <<Sd1, Sd2>>),
     HDoc("BA1", "BD1", <<Sd1>>),
     HDoc("BA2", "BD1", <<Sd2Renamed>>),
     HDoc("BA1", "BD2", <<SdNoId, Sd2>>)}

Ref(o) == [object_id |-> o]
S_F == <<"f">>
S_FPadded == <<" ", "f", " ">>

\* SD1: every field, "SD1 triggers SD2"
EnA == [object_id |-> "SD1",
        data |-> [role_definition |-> "r1", example_of_use |-> "x1",
                  executive_summary |-> "s1",
                  key_features |-> <<S_FPadded, S_Stars>>,
                  relations_all |-> [realized_by |-> <<[name |-> "Manage"]>>],
                  relations_service_domains |-> [triggers |-> <<Ref("SD2")>>]]]
\* SD2: relations only, "SD2 triggered_by SD1"
EnB == [object_id |-> "SD2",
        data |-> [relations_service_domains |-> [triggered_by |-> <<Ref("SD1")>>]]]
\* SD1: a role only; names itself both ways and SD3, which the hierarchy lacks
EnC == [object_id |-> "SD1",
        data |-> [role_definition |-> "r2",
                  relations_service_domains |->
                     [triggers |-> <<Ref("SD1"), Ref("SD3")>>,
                      triggered_by |-> <<Ref("SD1")>>]]]
\* a file for SD3, which the hierarchy lacks
EnD == [object_id |-> "SD3", data |-> [role_definition |-> "r1"]]
\* an error document of 3 keys, and one of 5
EnErr3 == [object_id |-> "SD1",
           data |-> [error |-> "e", role_definition |-> "r2",
                     relations_service_domains |-> [triggers |-> <<Ref("SD2")>>]]]
EnErr5 == [object_id |-> "SD2",
           data |-> [error |-> "e", role_definition |-> "r2", example_of_use |-> "x2",
                     executive_summary |-> "s2",
                     relations_service_domains |-> [triggers |-> <<Ref("SD1")>>]]]

EnrichBatches ==
    {<<EnA>>, <<EnB>>, <<EnC>>, <<EnD>>, <<EnErr3>>, <<EnErr5>>,
     <<EnA, EnB>>, <<EnB, EnA>>}

\* the tags, operation ids and schema names of the API documents
S_A == <<"A">>
S_Zz == <<"Z", "z">>
S_TagCRAcct == <<"C", "R", " ", "-", " ", "A", "c", "c", "t">>
S_TagBQFee == <<"B", "Q", " ", "-", " ", "F", "e", "e">>
S_InitiateAcct == <<"I", "n", "i", "t", "i", "a", "t", "e", "A", "c", "c", "t">>
S_RetrieveFee == <<"R", "e", "t", "r", "i", "e", "v", "e", "F", "e", "e">>
S_Acct == <<"A", "c", "c", "t">>
S_Get == <<"g", "e", "t">>
S_Post == <<"p", "o", "s", "t">>

OpEntry(path, method, tag, operation_id) ==
    [path |-> path, method |-> method,
     op_data |-> [tags |-> <<tag>>, operationId |-> operation_id, summary |-> "sum"]]

\* titled as SD1 is named: a control record, its operation, a schema
YA == [stem |-> S_Ab,
       spec |-> [info |-> [title |-> S_Ab],
                 paths |-> <<OpEntry("/acct", S_Post, S_TagCRAcct, S_InitiateAcct)>>,
                 schemas |-> <<[name |-> S_Acct, def |-> [type |-> "object"]],
                               [name |-> S_HTTPError, def |-> <<>>]>>]]
\* titled "A", which only the partial match finds: a behavior qualifier and
\* its operation, no summary
YB == [stem |-> S_A,
       spec |-> [info |-> [title |-> S_A],
                 paths |-> <<[path |-> "/fee", method |-> S_Get,
                              op_data |-> [tags |-> <<S_TagBQFee>>,
                                           operationId |-> S_RetrieveFee]]>>]]
\* no service domain is named like it
YZ == [stem |-> S_Zz,
       spec |-> [info |-> [title |-> S_Zz],
                 paths |-> <<OpEntry("/acct", S_Post, S_TagCRAcct, S_InitiateAcct)>>]]
\* does not parse
YBad == [stem |-> S_Ab]

YamlBatches == {<<YA>>, <<YB>>, <<YZ, YA>>, <<YBad, YB>>}

\* the orders in which the store may scan the service domains
Orders == {<<"SD1", "SD2">>, <<"SD2", "SD1">>}

(***************************************************************************)
(* The operations.                                                          *)
(***************************************************************************)
G0 == Graph(nodes, edges)
Idle == dall.pc = "idle" /\ pend = None

\* what an operation leaves for its caller: its input and what it reports
Report(op, run, deleted) ==
    [op |-> op, run |-> run, deleted |-> deleted, input |-> <<>>, rep |-> <<>>]
PassReport(op, run, input, rep) ==
    [op |-> op, run |-> run, deleted |-> 0, input |-> input, rep |-> rep]

PipeOff == [stage |-> "off"]

InitStore ==
    /\ nodes = {}
    /\ edges = NoEdges
    /\ clock = 0
    /\ last = Report("init", 0, 0)
    /\ dall = [pc |-> "idle", total |-> 0]
    /\ pend = None

Init == InitStore /\ pipe = PipeOff

\* another application's data in the same store ("Legacy tables, Capabilities")
AddOtherData ==
    /\ Idle
    /\ \E k \in 1..MaxOther :
          /\ Match(G0, "Capability", "name", k) = {}
          /\ nodes' = UpsertNode(G0, "Capability", "name", k, <<>>).nodes
    /\ last' = Report("other", 0, 0)
    /\ UNCHANGED <<edges, clock, dall, pend, pipe>>

\* load_hierarchy(run_id) on a document
HierarchyRun(doc, run) ==
    LET r == load_hierarchy(G0, doc, run) IN
    /\ nodes' = r.G.nodes
    /\ edges' = r.G.edges
    /\ last' = PassReport("hierarchy", run, doc,
                          [ok |-> r.ok, ba_count |-> r.ba_count,
                           bd_count |-> r.bd_count, sd_count |-> r.sd_count])

\* enrich_domains(run_id), then create_relationships(), on a directory of files
EnrichmentRun(files, run) ==
    LET e == enrich_domains(G0, files, run)
        r == create_relationships(e.G, files) IN
    /\ nodes' = r.G.nodes
    /\ edges' = r.G.edges
    /\ last' = PassReport("enrichment", run, files,
                          [enriched_count |-> e.enriched_count,
                           error_count |-> e.error_count,
                           triggers_count |-> r.triggers_count,
                           triggered_by_count |-> r.triggered_by_count])

\* load_all_yaml(run_id) on a directory of files
YamlRun(files, run, order) ==
    LET r == load_all_yaml(G0, files, run, order) IN
    /\ nodes' = r.G.nodes
    /\ edges' = r.G.edges
    /\ last' = PassReport("yaml", run, files,
                          [loaded |-> r.loaded, not_matched |-> r.not_matched,
                           errors |-> r.errors])

\* main's check before a pass: no service domain in the store ends the script
\* before it takes a run id or writes anything
Refused(op) ==
    /\ last' = Report(op, 0, 0)
    /\ UNCHANGED <<nodes, edges>>

\* main without the count of service domains at its start
NeverRefused == FALSE
NoServiceDomain == Labelled(G0, "BIANServiceDomain") = {}

\* 01_load_hierarchy.py main: run_id from the clock, then load_hierarchy
HierarchyPass ==
    /\ Idle
    /\ clock < MaxRun
    /\ clock' = clock + 1
    /\ \E doc \in HierarchyDocs : HierarchyRun(doc, clock + 1)
    /\ UNCHANGED <<dall, pend, pipe>>

\* 02_enrich_domains.py main
EnrichmentRefused ==
    /\ Idle
    /\ clock < MaxRun
    /\ NoServiceDomain
    /\ Refused("enrichment_refused")
    /\ UNCHANGED <<clock, dall, pend, pipe>>

EnrichmentPass ==
    /\ Idle
    /\ clock < MaxRun
    /\ ~NoServiceDomain
    /\ clock' = clock + 1
    /\ \E files \in EnrichBatches : EnrichmentRun(files, clock + 1)
    /\ UNCHANGED <<dall, pend, pipe>>

\* 03_load_yaml.py main
YamlRefused ==
    /\ Idle
    /\ clock < MaxRun
    /\ NoServiceDomain
    /\ Refused("yaml_refused")
    /\ UNCHANGED <<clock, dall, pend, pipe>>

YamlPass ==
    /\ Idle
    /\ clock < MaxRun
    /\ ~NoServiceDomain
    /\ clock' = clock + 1
    /\ \E files \in YamlBatches, order \in Orders : YamlRun(files, clock + 1, order)
    /\ UNCHANGED <<dall, pend, pipe>>

\* 03_load_yaml.py on one file, up to the answer of find_service_domain; the
\* script holds the parsed document and the object id until it writes
YamlResolve ==
    /\ Idle
    /\ clock < MaxRun
    /\ ~NoServiceDomain
    /\ clock' = clock + 1
    /\ \E file \in {YA, YB}, order \in Orders :
          LET yaml_data == parse_yaml_file(file)
              found == find_service_domain(G0, yaml_data.sd_name, order)
          IN  /\ found # None
              /\ pend' = Some([yaml_data |-> yaml_data, sd_object_id |-> found[1],
                               run |-> clock + 1, file |-> file])
    /\ last' = Report("yaml_resolved", clock + 1, 0)
    /\ UNCHANGED <<nodes, edges, dall, pipe>>

\* ... and from load_yaml_to_neo4j on: the writes, then loaded += 1
YamlLoad ==
    /\ pend # None
    /\ dall.pc = "idle"
    /\ LET j == pend[1]
           G2 == load_yaml_to_neo4j(G0, j.yaml_data, j.sd_object_id, j.run) IN
          /\ nodes' = G2.nodes
          /\ edges' = G2.edges
          /\ last' = PassReport("yaml", j.run, <<j.file>>,
                                [loaded |-> 1, not_matched |-> <<>>, errors |-> <<>>])
    /\ pend' = None
    /\ UNCHANGED <<clock, dall, pipe>>

\* 00_clear_database.py main, choice 3 (a run id show_import_runs lists)
DeleteByRunId ==
    /\ dall.pc = "idle"
    /\ \E run \in ImportRuns(G0) :
          LET r == delete_by_run_id(G0, run) IN
          /\ nodes' = r.G.nodes
          /\ edges' = r.G.edges
          /\ last' = Report("delete_by_run_id", run, r.deleted)
    /\ UNCHANGED <<clock, dall, pend, pipe>>

\* 00_clear_database.py main, choice 2
DeleteBianOnly ==
    /\ dall.pc = "idle"
    /\ LET r == delete_bian_only(G0) IN
          /\ nodes' = r.G.nodes
          /\ edges' = r.G.edges
          /\ last' = Report("delete_bian_only", 0, r.deleted)
    /\ UNCHANGED <<clock, dall, pend, pipe>>

\* 00_clear_database.py main, choice 1: delete_all starts its loop
DeleteAllStart ==
    /\ Idle
    /\ dall' = [pc |-> "loop", total |-> 0]
    /\ last' = Report("delete_all_start", 0, 0)
    /\ UNCHANGED <<nodes, edges, clock, pend, pipe>>

\* one round of the loop; the round that deletes nothing ends it
DeleteAllBatch ==
    /\ dall.pc = "loop"
    /\ \E b \in Batches(G0) :
          LET G2 == DetachDelete(G0, b) IN
          /\ nodes' = G2.nodes
          /\ edges' = G2.edges
          /\ dall' = [pc |-> IF b = {} THEN "idle" ELSE "loop",
                      total |-> dall.total + Cardinality(b)]
          /\ last' = IF b = {} THEN Report("delete_all", 0, dall.total)
                     ELSE Report("delete_all_batch", 0, Cardinality(b))
    /\ UNCHANGED <<clock, pend, pipe>>

\* the ingestion passes, each a script run, and the wipes that end in one call
Next ==
    \/ HierarchyPass
    \/ EnrichmentRefused
    \/ EnrichmentPass
    \/ YamlRefused
    \/ YamlPass
    \/ DeleteByRunId
    \/ DeleteBianOnly

Spec == Init /\ [][Next]_vars

\* the Run & Deletion Manager over a store that the hierarchy pass and another
\* application fill; nothing else runs while delete_all is in its loop
NextWipe ==
    \/ AddOtherData
    \/ HierarchyPass
    \/ DeleteByRunId
    \/ DeleteBianOnly
    \/ DeleteAllStart
    \/ DeleteAllBatch

SpecWipe == Init /\ [][NextWipe]_vars /\ WF_vars(DeleteAllBatch)

\* the passes with an operator who runs a wipe while 03_load_yaml.py is between
\* resolving a file's service domain and writing the file's nodes
NextRace ==
    \/ HierarchyPass
    \/ EnrichmentPass
    \/ YamlResolve
    \/ YamlLoad
    \/ DeleteByRunId
    \/ DeleteBianOnly

SpecRace == Init /\ [][NextRace]_vars

(***************************************************************************)
(* The pipeline run twice: hierarchy, enrichment with relationships, API    *)
(* documents, under run id r1, then the same documents under run id r2.     *)
(***************************************************************************)
Labels == Range(BIAN_LABELS)
EdgeTypes == {"HAS_DOMAIN", "HAS_SERVICE", "HAS_CR", "HAS_BQ", "HAS_OPERATION",
              "HAS_SCHEMA", "FOR_CR", "FOR_BQ", "TRIGGERS"}

RECURSIVE SumOver(_, _)
SumOver(es, todo) ==
    IF todo = {} THEN 0
    ELSE LET e == CHOOSE x \in todo : TRUE IN es[e] + SumOver(es, todo \ {e})

\* show_current_stats: nodes per label, relationships per type
Counts(G) ==
    [nodes |-> [l \in Labels |-> Cardinality(Labelled(G, l))],
     edges |-> [t \in EdgeTypes |->
                  SumOver(G.edges, {e \in DOMAIN G.edges : e[2] = t})]]

InitPipeline ==
    /\ InitStore
    /\ \E h \in HierarchyDocs, e \in EnrichBatches, y \in YamlBatches,
          r1 \in RunIds, r2 \in RunIds :
          /\ r1 < r2
          /\ pipe = [stage |-> 0, h |-> h, e |-> e, y |-> y, r1 |-> r1, r2 |-> r2,
                     after1 |-> Graph({}, NoEdges)]

PipeRun == IF pipe.stage < 3 THEN pipe.r1 ELSE pipe.r2

PipeHierarchy ==
    /\ pipe.stage \in {0, 3}
    /\ HierarchyRun(pipe.h, PipeRun)
    /\ pipe' = [pipe EXCEPT !.stage = @ + 1]
    /\ UNCHANGED <<clock, dall, pend>>

PipeEnrichment ==
    /\ pipe.stage \in {1, 4}
    /\ IF NoServiceDomain THEN Refused("enrichment_refused")
       ELSE EnrichmentRun(pipe.e, PipeRun)
    /\ pipe' = [pipe EXCEPT !.stage = @ + 1]
    /\ UNCHANGED <<clock, dall, pend>>

\* the first run's end is where the counts are taken
PipeYaml ==
    /\ pipe.stage \in {2, 5}
    /\ IF NoServiceDomain THEN Refused("yaml_refused")
       ELSE \E order \in Orders : YamlRun(pipe.y, PipeRun, order)
    /\ pipe' = [pipe EXCEPT !.stage = @ + 1,
                            !.after1 = IF pipe.stage = 2 THEN Graph(nodes', edges')
                                       ELSE @]
    /\ UNCHANGED <<clock, dall, pend>>

NextPipeline == PipeHierarchy \/ PipeEnrichment \/ PipeYaml

SpecPipeline == InitPipeline /\ [][NextPipeline]_vars

(***************************************************************************)
(* The properties.                                                          *)
(***************************************************************************)
G1 == Graph(nodes', edges')
RunOf(n) == n.props["_run_id"]
SameProp(n, m, p) == (Has(n, p) <=> Has(m, p)) /\ (Has(n, p) => n.props[p] = m.props[p])
SdIds == {"SD1", "SD2", "SD3"}
SdNodes(G, A) == Match(G, "BIANServiceDomain", "object_id", A)

\* C1: when the whole pipeline has run twice on the same documents under two
\* run ids, the store holds as many nodes per label and as many edges per type
\* as after the first run, and every node the second run changed carries the
\* second run's id.
PipelineIdempotent ==
    pipe.stage = 6 =>
       /\ Counts(G0) = Counts(pipe.after1)
       /\ \A n \in nodes \ pipe.after1.nodes : Has(n, "_run_id") /\ RunOf(n) = pipe.r2

\* C2: in every reachable state no two nodes of a label share the label's
\* natural key.
NaturalKeyUnique ==
    \A n, m \in nodes :
       (/\ n.label \in Labels
        /\ n.label = m.label
        /\ n.props[KeyProp(n.label)] = m.props[KeyProp(m.label)]) => n = m

\* a business domain written again by a later pass than one of its service domains
NodeMergedAgain ==
    \E p, c \in nodes :
       /\ <<p.id, "HAS_SERVICE", c.id>> \in DOMAIN edges
       /\ RunOf(p) > RunOf(c)

\* the TRIGGERS edges from service domain A to service domain B
TriggersCount(G, A, B) ==
    SumOver(G.edges,
            {e \in DOMAIN G.edges :
                /\ e[2] = "TRIGGERS"
                /\ e[1] \in {n.id : n \in SdNodes(G, A)}
                /\ e[3] \in {n.id : n \in SdNodes(G, B)}})

\* the references of one kind ("triggers", "triggered_by") in a file
Refs(f, kind) == Get(Get(f.data, "relations_service_domains", <<>>), kind, <<>>)

\* A's file, one the pass reads, names B under `kind`
Names(files, A, kind, B) ==
    \E i \in DOMAIN files :
       /\ files[i].object_id = A
       /\ ~IsNoData(files[i].data)
       /\ \E j \in DOMAIN Refs(files[i], kind) : Opt(Refs(files[i], kind)[j], "object_id") = Some(B)

\* C3: after an enrichment pass, for service domains A and B of the store,
\* "A triggers B" in A's file and "B triggered_by A" in B's file, one or both,
\* leave exactly one TRIGGERS edge from A to B; they add no edge from B to A;
\* and no service domain triggers itself.
TriggersDeduplicated ==
    [][last'.op = "enrichment" =>
         \A A, B \in SdIds :
            LET AB == \/ Names(last'.input, A, "triggers", B)
                      \/ Names(last'.input, B, "triggered_by", A)
                BA == \/ Names(last'.input, B, "triggers", A)
                      \/ Names(last'.input, A, "triggered_by", B)
            IN  /\ (A # B /\ SdNodes(G0, A) # {} /\ SdNodes(G0, B) # {} /\ AB)
                      => TriggersCount(G1, A, B) = 1
                /\ (A # B /\ ~BA) => TriggersCount(G1, B, A) = TriggersCount(G0, B, A)
                /\ TriggersCount(G1, A, A) = 0]_vars

\* both declarations of one edge were in the pass's files
DeclaredBothWays ==
    /\ last.op = "enrichment"
    /\ \E A, B \in SdIds :
          /\ A # B
          /\ Names(last.input, A, "triggers", B)
          /\ Names(last.input, B, "triggered_by", A)
          /\ TriggersCount(G0, A, B) = 1

\* C4: delete_by_run_id(R) removes every node whose _run_id is R, leaves every
\* other node, the ones without a _run_id among them, as it was, and reports
\* the number of nodes it removed.
DeleteByRunIdExact ==
    [][last'.op = "delete_by_run_id" =>
         /\ nodes' = {n \in nodes : ~(Has(n, "_run_id") /\ RunOf(n) = last'.run)}
         /\ last'.deleted = Cardinality(nodes) - Cardinality(nodes')
         /\ last'.deleted = Cardinality({n \in nodes : Has(n, "_run_id") /\ RunOf(n) = last'.run})]_vars

\* a run was deleted beside a node of another run and a node without a run id
RunDeletedBesideOthers ==
    /\ last.op = "delete_by_run_id"
    /\ last.deleted > 0
    /\ \E n \in nodes : Has(n, "_run_id") /\ RunOf(n) # last.run
    /\ \E n \in nodes : ~Has(n, "_run_id")

\* C5 as the specification states it, for the list {ServiceDomain}: the
\* label-scoped wipe removes the service domains and leaves the nodes of
\* every other label, the business areas in particular.
LabelWipeLeavesBusinessArea ==
    [][last'.op = "delete_bian_only" =>
         /\ Labelled(G1, "BIANServiceDomain") = {}
         /\ \A n \in nodes : n.label = "BusinessArea" => n \in nodes']_vars

\* C5: the label-scoped wipe removes every node whose label is in BIAN_LABELS
\* (business areas and business domains as well as service domains), leaves
\* every node of any other label as it was, and reports the number it removed.
LabelWipeExact ==
    [][last'.op = "delete_bian_only" =>
         /\ nodes' = {n \in nodes : n.label \notin Labels}
         /\ last'.deleted = Cardinality({n \in nodes : n.label \in Labels})]_vars

\* the wipe removed the hierarchy beside another application's node
LabelWipeBesideOthers ==
    /\ last.op = "delete_bian_only"
    /\ last.deleted > 0
    /\ \E n \in nodes : n.label = "Capability"

\* C6: with nothing else writing, delete_all, once in its loop, comes to its
\* end, and the store is empty when it does.
DeleteAllTerminates ==
    (dall.pc = "loop") ~> (dall.pc = "idle" /\ nodes = {} /\ edges = NoEdges)

\* delete_all ended after more than one batch
DeleteAllInBatches ==
    /\ last.op = "delete_all"
    /\ last.deleted > BatchSize
    /\ nodes = {}

\* C7: the provenance fields of a node all describe one write, the latest: the
\* timestamps it has are those of the pass whose run id it carries.
ProvenanceOfLastWrite ==
    \A n \in nodes :
       Has(n, "_run_id") =>
          /\ Has(n, "_imported_at") => n.props["_imported_at"] = RunOf(n)
          /\ Has(n, "_enriched_at") => n.props["_enriched_at"] = RunOf(n)

\* the key of an enrichment file and the property enrich_domains sets from it
EnrichedFrom ==
    {<<"role_definition", "role">>, <<"example_of_use", "example_of_use">>,
     <<"executive_summary", "executive_summary">>, <<"key_features", "key_features">>,
     <<"relations_all", "functional_pattern">>}
EnrichmentProps == {kp[2] : kp \in EnrichedFrom} \cup {"_enriched_at"}

\* a hierarchy pass keeps the enrichment of a service domain, and its url when
\* the record has none
HierarchyKeeps ==
    last'.op = "hierarchy" =>
       \A n \in Labelled(G0, "BIANServiceDomain"), m \in nodes' :
          m.id = n.id =>
             /\ \A p \in EnrichmentProps : SameProp(n, m, p)
             /\ (\A i \in DOMAIN HierarchySteps(last'.input) :
                    LET s == HierarchySteps(last'.input)[i] IN
                    (s.k = "SD" /\ s.object_id = Some(n.props["object_id"]))
                       => s.url = None)
                   => SameProp(n, m, "url")

\* an enrichment pass keeps the properties whose keys a file omits
EnrichmentKeeps ==
    last'.op = "enrichment" =>
       \A i \in DOMAIN last'.input :
          LET f == last'.input[i] IN
          ~IsNoData(f.data) =>
             \A n \in SdNodes(G0, f.object_id), m \in nodes' :
                m.id = n.id =>
                   /\ \A kp \in EnrichedFrom :
                         kp[1] \notin DOMAIN f.data => SameProp(n, m, kp[2])
                   /\ \A p \in {"name", "url", "_imported_at"} : SameProp(n, m, p)

\* an API pass keeps the hierarchy's nodes as they are
YamlKeeps ==
    last'.op = "yaml" =>
       \A n \in nodes :
          n.label \in {"BusinessArea", "BusinessDomain", "BIANServiceDomain"}
             => n \in nodes'

\* C8: a pass that merges into an existing node changes only the properties
\* its record supplies, and its own provenance.
MergeKeepsTheRest == [][HierarchyKeeps /\ EnrichmentKeeps /\ YamlKeeps]_vars

\* the declarations an enrichment pass reads: <<file, kind, reference>>
Declarations(files) ==
    UNION {{<<i, kind, j>> : j \in DOMAIN Refs(files[i], kind)} :
             i \in {k \in DOMAIN files : ~IsNoData(files[k].data)},
             kind \in {"triggers", "triggered_by"}}
\* ... those of them whose two service domains are in the store
Resolved(G, files) ==
    {d \in Declarations(files) :
        LET ref == Refs(files[d[1]], d[2])[d[3]] IN
        /\ Declared(ref, files[d[1]].object_id)
        /\ SdNodes(G, ref.object_id) # {}
        /\ SdNodes(G, files[d[1]].object_id) # {}}

\* C9: a declaration that names a service domain the store lacks creates no
\* node and no edge, and is not among the relationships the pass counts as
\* created.
DanglingNotCounted ==
    [][last'.op = "enrichment" =>
         /\ {n.id : n \in nodes'} = {n.id : n \in nodes}
         /\ \A e \in DOMAIN edges' : e[1] \in {n.id : n \in nodes'}
                                     /\ e[3] \in {n.id : n \in nodes'}
         /\ last'.rep.triggers_count + last'.rep.triggered_by_count
               <= Cardinality(Resolved(G0, last'.input))]_vars

\* the ids load_yaml_to_neo4j is to write for a parsed document, with their labels
ChildKeys(yaml_data) ==
    {<<"BIANControlRecord", yaml_data.control_records[i].id>> :
        i \in DOMAIN yaml_data.control_records}
    \cup {<<"BIANBehaviorQualifier", yaml_data.behavior_qualifiers[i].id>> :
        i \in DOMAIN yaml_data.behavior_qualifiers}
    \cup {<<"BIANOperation", yaml_data.operations[i].id>> :
        i \in DOMAIN yaml_data.operations}
    \cup {<<"BIANSchema", yaml_data.schemas[i].id>> : i \in DOMAIN yaml_data.schemas}

\* an enrichment file whose service domain the store lacks: the node is there
\* afterwards, or the file is not among those counted as enriched
EnrichmentNotLost ==
    last'.op = "enrichment" =>
       \A i \in DOMAIN last'.input :
          LET f == last'.input[i] IN
          (~IsNoData(f.data) /\ SdNodes(G0, f.object_id) = {}) =>
             \/ SdNodes(G1, f.object_id) # {}
             \/ last'.rep.enriched_count
                   <= Cardinality({k \in DOMAIN last'.input :
                                     /\ ~IsNoData(last'.input[k].data)
                                     /\ SdNodes(G0, last'.input[k].object_id) # {}})

\* an API document whose service domain went after it was resolved: its nodes
\* are there afterwards, or the document is not counted as loaded
ChildrenNotLost ==
    (pend # None /\ pend' = None /\ SdNodes(G0, pend[1].sd_object_id) = {}) =>
          \/ \A c \in ChildKeys(pend[1].yaml_data) : Match(G1, c[1], "id", c[2]) # {}
          \/ last'.rep.loaded = 0

\* C10: a write whose parent the store lacks is stored or reported, never
\* dropped while the pass counts it as done.
MissingParentNotLost == [][EnrichmentNotLost /\ ChildrenNotLost]_vars

\* the service-domain records of a hierarchy document that have an object id
\* and a name
WellFormedSds(hierarchy) ==
    {HierarchySteps(hierarchy)[i].object_id[1] :
        i \in {k \in DOMAIN HierarchySteps(hierarchy) :
                 /\ HierarchySteps(hierarchy)[k].k = "SD"
                 /\ HierarchySteps(hierarchy)[k].object_id # None}}

\* a hierarchy pass stores every well-formed service domain of its document,
\* those after a malformed record too
HierarchyContinues ==
    last'.op = "hierarchy" =>
       \A o \in WellFormedSds(last'.input) : SdNodes(G1, o) # {}

\* an API pass lists every document that does not parse in its errors, and
\* loads, lists as not matched or lists as error every document of the batch
YamlContinues ==
    last'.op = "yaml" =>
       /\ Len(last'.rep.errors)
             = Cardinality({i \in DOMAIN last'.input : "spec" \notin DOMAIN last'.input[i]})
       /\ last'.rep.loaded + Len(last'.rep.not_matched) + Len(last'.rep.errors)
             = Len(last'.input)

\* C11: a pass skips a malformed record, counts it as an error and processes
\* the well-formed records that come after it; one bad record never ends the
\* pass.
MalformedRecordSkipped == [][HierarchyContinues /\ YamlContinues]_vars

\* the document parses and no service domain matches its title
Unmatched(G, f) ==
    /\ "spec" \in DOMAIN f
    /\ \A o \in Orders : find_service_domain(G, parse_yaml_file(f).sd_name, o) = None

\* the nodes of the document's ids, and the edges that end in them
ChildNodes(G, f) ==
    {n \in G.nodes : <<n.label, n.props[KeyProp(n.label)]>> \in ChildKeys(parse_yaml_file(f))}
ChildEdges(G, f) ==
    {e \in DOMAIN G.edges : e[3] \in {n.id : n \in ChildNodes(G, f)}}

\* C12: when no service domain matches a document's title, load_all_yaml
\* lists the title as not matched, writes no node and no edge for the
\* document, and processes every document that comes after it in the batch.
NotMatchedSkipped ==
    [][last'.op = "yaml" =>
         \A i \in DOMAIN last'.input :
            LET f == last'.input[i] IN
            Unmatched(G0, f) =>
               /\ \E k \in DOMAIN last'.rep.not_matched :
                     last'.rep.not_matched[k] = parse_yaml_file(f).sd_name
               /\ ChildNodes(G1, f) = ChildNodes(G0, f)
               /\ ChildEdges(G1, f) = ChildEdges(G0, f)
               /\ \A j \in DOMAIN last'.input :
                     (j > i /\ "spec" \in DOMAIN last'.input[j]
                            /\ ~Unmatched(G0, last'.input[j]))
                        => \A c \in ChildKeys(parse_yaml_file(last'.input[j])) :
                              Match(G1, c[1], "id", c[2]) # {}
               /\ last'.rep.loaded + Len(last'.rep.not_matched) + Len(last'.rep.errors)
                     = Len(last'.input)]_vars

\* a batch whose first document matched nothing and whose second was loaded
LoadedAfterUnmatched ==
    /\ last.op = "yaml"
    /\ Len(last.input) = 2
    /\ Unmatched(G0, last.input[1])
    /\ last.rep.not_matched = <<parse_yaml_file(last.input[1]).sd_name>>
    /\ last.rep.loaded = 1
    /\ ChildNodes(G0, last.input[2]) # {}

(***************************************************************************)
(* find_service_domain on its own: a store of one or two service domains   *)
(* that a hierarchy pass loaded, and titles to resolve against it.          *)
(***************************************************************************)
S_AB == <<"A", "B">>
S_ASpaceB == <<"A", " ", "b">>
S_ADotB == <<"A", ".", "b">>
S_aDotB == <<"a", ".", "B">>
S_ab == <<"a", "b">>
S_aDotb == <<"a", ".", "b">>

StoredNames == {S_Ab, S_AB, S_ASpaceB, S_ADotB, S_aDotB, S_Abc}
Candidates == {S_Ab, S_ab, S_aDotb, S_ASpaceB, S_A, S_Zz}

ResolveDocs ==
    {HDoc("BA1", "BD1", <<[name |-> n1, object_id |-> "SD1"]>>) : n1 \in StoredNames}
    \cup {HDoc("BA1", "BD1", <<[name |-> n1, object_id |-> "SD1"],
                               [name |-> n2, object_id |-> "SD2"]>>) :
            n1 \in StoredNames, n2 \in StoredNames}

InitResolve ==
    /\ \E doc \in ResolveDocs :
          /\ nodes = load_hierarchy(Graph({}, NoEdges), doc, 1).G.nodes
          /\ edges = load_hierarchy(Graph({}, NoEdges), doc, 1).G.edges
    /\ clock = 1
    /\ last = Report("init", 0, 0)
    /\ dall = [pc |-> "idle", total |-> 0]
    /\ pend = None
    /\ pipe = PipeOff

\* one call of find_service_domain(sd_name); the store answers in `order`
Resolve ==
    /\ \E sd_name \in Candidates, order \in Orders :
          last' = PassReport("resolve", 0, [sd_name |-> sd_name, order |-> order],
                             find_service_domain(G0, sd_name, order))
    /\ UNCHANGED <<nodes, edges, clock, dall, pend, pipe>>

NextResolve == Resolve

SpecResolve == InitResolve /\ [][NextResolve]_vars

\* the object id of the one service domain of `rows`
OnlyRow(rows) == (CHOOSE n \in rows : TRUE).props["object_id"]

\* the resolver as C13 states it: of the first three tiers only one with
\* exactly one candidate is accepted; the last tier takes the first of its
\* candidates in the store's order
ClaimedResolve(G, sd_name, order) ==
    IF Cardinality(ExactRows(G, sd_name)) = 1 THEN Some(OnlyRow(ExactRows(G, sd_name)))
    ELSE IF Cardinality(CaseRows(G, sd_name)) = 1
         THEN Some(OnlyRow(CaseRows(G, sd_name)))
    ELSE IF Cardinality(NormalizedRows(G, sd_name)) = 1
         THEN Some(OnlyRow(NormalizedRows(G, sd_name)))
    ELSE IF PartialRows(G, sd_name) # {}
         THEN Some(FirstRow(PartialRows(G, sd_name), order))
    ELSE None

\* C13: find_service_domain tries exact, case-insensitive, normalized and
\* partial match in this order and answers with the candidate of the first
\* tier that has exactly one; a tier of the first three with two or more
\* candidates is not taken as a match.
ResolvesByFirstUniqueTier ==
    last.op = "resolve" =>
       last.rep = ClaimedResolve(G0, last.input.sd_name, last.input.order)

\* C14: for one store and one title find_service_domain gives the same answer
\* whatever order the store returns the rows in.
ResolverDeterministic ==
    last.op = "resolve" =>
       \A o \in Orders : find_service_domain(G0, last.input.sd_name, o) = last.rep

Containment == {"HAS_DOMAIN", "HAS_SERVICE", "HAS_CR", "HAS_BQ", "HAS_OPERATION",
                "HAS_SCHEMA"}

\* the containment edges that end in node n
ContainedBy(n) == {e \in DOMAIN edges : e[2] \in Containment /\ e[3] = n.id}

\* C15: every node has at most one incoming containment edge: no business
\* domain is in two business areas, no service domain in two business domains,
\* no control record, behavior qualifier, operation or schema in two service
\* domains.
OneContainer == \A n \in nodes : Cardinality(ContainedBy(n)) <= 1

\* C16: for each (source node, edge type, target node) the store holds at most
\* one edge: merging an edge that is there adds nothing.
OneEdgePerTriple == \A e \in DOMAIN edges : edges[e] = 1

\* the only business area and its business domain were written again after the
\* first pass of the behaviour, which created them with the edge between them
EdgeMergedAgain ==
    \E ba, bd, sd \in nodes :
       /\ Labelled(G0, "BusinessArea") = {ba}
       /\ <<ba.id, "HAS_DOMAIN", bd.id>> \in DOMAIN edges
       /\ <<bd.id, "HAS_SERVICE", sd.id>> \in DOMAIN edges
       /\ RunOf(sd) = 1
       /\ RunOf(ba) > 1
       /\ RunOf(bd) = RunOf(ba)

WipeOps == {"delete_by_run_id", "delete_bian_only", "delete_all", "delete_all_batch"}

\* every node and every edge of the store is still there after the step
NothingRemoved ==
    /\ {n.id : n \in nodes} \subseteq {n.id : n \in nodes'}
    /\ \A e \in DOMAIN edges : e \in DOMAIN edges' /\ edges'[e] >= edges[e]

\* C17: no ingestion operation removes a node or an edge; the only steps after
\* which a node or an edge of the store is gone are the deletions of the Run &
\* Deletion Manager.
OnlyWipesRemove == [][last'.op \notin WipeOps => NothingRemoved]_vars

\* an API document pass has loaded a file into a store that held nodes and
\* edges of earlier passes
LoadedOverOlderData ==
    /\ last.op = "yaml"
    /\ last.rep.loaded > 0
    /\ \E n \in nodes : RunOf(n) < last.run
    /\ \E e \in DOMAIN edges : e[2] = "HAS_SERVICE"
    /\ \E e \in DOMAIN edges : e[2] = "HAS_CR"

(***************************************************************************)
(* The ids parse_yaml_file derives, on their own: two documents, each with  *)
(* one entity of one kind, parsed side by side.                             *)
(***************************************************************************)
S_Ac == <<"A", "c">>
S_AC == <<"A", "C">>
S_ASpaceC == <<"A", " ", "c">>
S_ADashC == <<"A", "-", "c">>
S_Fe == <<"F", "e">>

Kinds == {"CR", "BQ", "OP", "SCHEMA"}
Titles == {S_Ab, S_ASpaceB, S_ab, S_Abc}
Texts == {S_Ac, S_AC, S_ASpaceC, S_ADashC, S_Fe}
Triples == [title : Titles, kind : Kinds, text : Texts]

\* an API document titled t.title whose only entity of kind t.kind is t.text:
\* the tag's name for a control record or a behavior qualifier, the
\* operationId for an operation, the schema's name for a schema
DocOf(t) ==
    [stem |-> t.title,
     spec |-> [info |-> [title |-> t.title],
               paths |-> CASE t.kind = "CR" ->
                                <<OpEntry("/p", S_Get, S_CRPrefix \o t.text, <<>>)>>
                           [] t.kind = "BQ" ->
                                <<OpEntry("/p", S_Get, S_BQPrefix \o t.text, <<>>)>>
                           [] t.kind = "OP" ->
                                <<OpEntry("/p", S_Get, S_TagCRAcct, t.text)>>
                           [] OTHER -> <<>>,
               schemas |-> IF t.kind = "SCHEMA"
                           THEN <<[name |-> t.text, def |-> [type |-> "object"]]>>
                           ELSE <<>>]]

\* the id parse_yaml_file gives the entity of DocOf(t)
DerivedId(t) ==
    LET p == parse_yaml_file(DocOf(t))
    IN  CASE t.kind = "CR" -> p.control_records[1].id
          [] t.kind = "BQ" -> p.behavior_qualifiers[1].id
          [] t.kind = "OP" -> p.operations[1].id
          [] OTHER         -> p.schemas[1].id

InitDerive ==
    /\ nodes = {}
    /\ edges = NoEdges
    /\ clock = 0
    /\ last = Report("init", 0, 0)
    /\ dall = [pc |-> "idle", total |-> 0]
    /\ pipe = PipeOff
    /\ \E t1 \in Triples, t2 \in Triples : pend = Some(<<t1, t2>>)

\* parse_yaml_file on the two documents
DeriveIds ==
    /\ pend # None
    /\ last.op = "init"
    /\ last' = PassReport("parse_yaml_file", 0, pend[1],
                          <<DerivedId(pend[1][1]), DerivedId(pend[1][2])>>)
    /\ UNCHANGED <<nodes, edges, clock, dall, pend, pipe>>

NextDerive == DeriveIds

SpecDerive == InitDerive /\ [][NextDerive]_vars

\* C18: the ids parse_yaml_file derives are collision-free: two distinct
\* triples (service domain title, kind, text) never yield the same id, also
\* when they differ only in the case, spacing or punctuation of the text or
\* of the title.
DerivedIdsCollisionFree ==
    last.op = "parse_yaml_file" =>
        (last.input[1] # last.input[2] => last.rep[1] # last.rep[2])

(***************************************************************************)
(* normalize_name on its own: applied to two strings side by side.          *)
(***************************************************************************)
\* the longest input string
MaxLen == 2

\* one character outside ASCII (e with acute accent), which str.lower() leaves
\* as it is
E_ACUTE == "U+00E9"

Alphabet == {"A", "a", "b", "1", " ", "&", E_ACUTE}

RECURSIVE StringsOf(_)
StringsOf(n) ==
    IF n = 0 THEN {<<>>}
    ELSE LET shorter == StringsOf(n - 1)
         IN  shorter \cup {<<c>> \o s : c \in Alphabet, s \in {t \in shorter : Len(t) = n - 1}}

Strings == StringsOf(MaxLen)

S_CardPaymentsLoans ==
    <<"C","a","r","d"," ","P","a","y","m","e","n","t","s"," ","&"," ",
      "L","o","a","n","s">>
S_cardpaymentsloans ==
    <<"c","a","r","d","p","a","y","m","e","n","t","s","&","l","o","a","n","s"," ">>

InitNormalize ==
    /\ nodes = {}
    /\ edges = NoEdges
    /\ clock = 0
    /\ last = Report("init", 0, 0)
    /\ dall = [pc |-> "idle", total |-> 0]
    /\ pipe = PipeOff
    /\ \/ \E x \in Strings, y \in Strings : pend = Some(<<x, y>>)
       \/ pend = Some(<<S_CardPaymentsLoans, S_cardpaymentsloans>>)

\* normalize_name(x), normalize_name(y) and normalize_name(normalize_name(x))
Normalize ==
    /\ pend # None
    /\ last.op = "init"
    /\ last' = PassReport("normalize_name", 0, pend[1],
                          <<normalize_name(pend[1][1]), normalize_name(pend[1][2]),
                            normalize_name(normalize_name(pend[1][1]))>>)
    /\ UNCHANGED <<nodes, edges, clock, dall, pend, pipe>>

NextNormalize == Normalize

SpecNormalize == InitNormalize /\ [][NextNormalize]_vars

SpacesAndPunctuation == {" ", "&", ".", "-", "_", ",", "/", "(", ")"}

\* the same character, or the upper and lower case of one letter
SameLetter(c, d) ==
    \/ c = d
    \/ \E i \in DOMAIN UpperCase : {c, d} = {UpperCase[i], LowerCase[i]}

\* x and y differ only in letter case, spaces and punctuation
RECURSIVE DifferOnlyInCaseSpacesPunctuation(_, _)
DifferOnlyInCaseSpacesPunctuation(x, y) ==
    IF x # <<>> /\ Head(x) \in SpacesAndPunctuation
    THEN DifferOnlyInCaseSpacesPunctuation(Tail(x), y)
    ELSE IF y # <<>> /\ Head(y) \in SpacesAndPunctuation
    THEN DifferOnlyInCaseSpacesPunctuation(x, Tail(y))
    ELSE IF x = <<>> \/ y = <<>> THEN x = y
    ELSE /\ SameLetter(Head(x), Head(y))
         /\ DifferOnlyInCaseSpacesPunctuation(Tail(x), Tail(y))

\* C19: for every string x, the empty one included, normalize_name(x) has
\* only characters of a-z and 0-9 and normalize_name(normalize_name(x)) =
\* normalize_name(x); two strings that differ only in letter case, spaces and
\* punctuation normalize to the same token.
NormalizeContract ==
    last.op = "normalize_name" =>
        /\ Range(last.rep[1]) \subseteq Range(LowerCase) \cup Digits
        /\ last.rep[3] = last.rep[1]
        /\ DifferOnlyInCaseSpacesPunctuation(last.input[1], last.input[2])
              => last.rep[1] = last.rep[2]

\* the two spellings were normalized to the one token
CardPaymentsNormalized ==
    /\ last.op = "normalize_name"
    /\ last.input = <<S_CardPaymentsLoans, S_cardpaymentsloans>>
    /\ last.rep[1] = last.rep[2]
    /\ Len(last.rep[1]) = 17

(***************************************************************************)
(* enrich_domains beside another writer: while that writer's transaction    *)
(* holds a service domain, a statement that writes it fails with a          *)
(* transient conflict.  held[id] is the number of attempts for which the    *)
(* service domain id stays held.                                            *)
(***************************************************************************)
\* the longest conflict, in attempts
MaxConflicts == 2

Holds == [{"SD1", "SD2"} -> 0..MaxConflicts]

HeldFor(held, object_id) == IF object_id \in DOMAIN held THEN held[object_id] ELSE 0

\* session.run of the SET statement: raises when a node it writes is held
Conflicts(G, held, object_id) ==
    /\ Match(G, "BIANServiceDomain", "object_id", object_id) # {}
    /\ HeldFor(held, object_id) > 0

\* the other writer's transaction is one attempt nearer its end
Attempted(held, object_id) ==
    [id \in DOMAIN held |->
        IF id = object_id /\ held[id] > 0 THEN held[id] - 1 ELSE held[id]]

\* enrich_domains(run_id): each file's statement is run once; what it raises
\* is caught with every other exception of the file
RECURSIVE RunEnrichHeld(_, _, _, _)
RunEnrichHeld(st, files, i, run) ==
    IF i > Len(files) THEN st
    ELSE LET f == files[i] IN
         RunEnrichHeld(
            IF IsNoData(f.data)
            THEN [st EXCEPT !.error_count = @ + 1]
            ELSE IF Conflicts(st.G, st.held, f.object_id)
            THEN [st EXCEPT !.error_count = @ + 1,
                            !.held = Attempted(st.held, f.object_id)]
            ELSE [st EXCEPT !.G = EnrichNode(st.G, f.object_id, f.data, run),
                            !.enriched_count = @ + 1],
            files, i + 1, run)

enrich_domains_held(G, files, held, run) ==
    RunEnrichHeld([G |-> G, enriched_count |-> 0, error_count |-> 0, held |-> held],
                  files, 1, run)

\* directories in which no two files are of one service domain
ConflictBatches ==
    {<<EnA>>, <<EnB>>, <<EnD>>, <<EnA, EnB>>, <<EnB, EnA>>, <<EnErr3, EnB>>}

EnrichDomainsHeld ==
    /\ Idle
    /\ clock < MaxRun
    /\ ~NoServiceDomain
    /\ clock' = clock + 1
    /\ \E files \in ConflictBatches, held \in Holds :
          LET e == enrich_domains_held(G0, files, held, clock + 1) IN
          /\ nodes' = e.G.nodes
          /\ edges' = e.G.edges
          /\ last' = PassReport("enrich_domains", clock + 1,
                                [files |-> files, held |-> held],
                                [enriched_count |-> e.enriched_count,
                                 error_count |-> e.error_count])
    /\ UNCHANGED <<dall, pend, pipe>>

NextConflict ==
    \/ HierarchyPass
    \/ EnrichDomainsHeld

SpecConflict == Init /\ [][NextConflict]_vars

\* the files of the pass whose document is not a no-data document
DataFiles(files) == {i \in DOMAIN files : ~IsNoData(files[i].data)}

\* C20: a store write that fails with a transient conflict is retried, and
\* the entity is counted as failed only after the attempts are exhausted: a
\* conflict that clears after the first failed attempt leaves the entity
\* written, and a pass in which no conflict lasts longer counts only its
\* no-data files as errors.
ConflictRetried ==
    last.op = "enrich_domains" =>
        LET files == last.input.files
            held  == last.input.held
        IN  /\ \A i \in DataFiles(files) :
                  HeldFor(held, files[i].object_id) = 1 =>
                     \A n \in SdNodes(G0, files[i].object_id) :
                        /\ RunOf(n) = last.run
                        /\ Has(n, "_enriched_at")
                        /\ n.props["_enriched_at"] = last.run
            /\ (\A id \in DOMAIN held : held[id] <= 1) =>
                  last.rep.error_count = Cardinality(DOMAIN files \ DataFiles(files))

(***************************************************************************)
(* The enrichment pass on one document at a time, the document having any   *)
(* of the fields the pass reads, with or without an error field.            *)
(***************************************************************************)
FullData == [EnA.data EXCEPT !.relations_service_domains =
                                 [triggers |-> <<Ref("SD2")>>,
                                  triggered_by |-> <<Ref("SD2")>>]]
               @@ [error |-> "e"]

\* SD1.json with the fields `keys`
DocWith(keys) == [object_id |-> "SD1", data |-> [k \in keys |-> FullData[k]]]

Documents == {DocWith(keys) : keys \in SUBSET DOMAIN FullData}

EnrichmentOfOne ==
    /\ Idle
    /\ clock < MaxRun
    /\ ~NoServiceDomain
    /\ clock' = clock + 1
    /\ \E f \in Documents : EnrichmentRun(<<f>>, clock + 1)
    /\ UNCHANGED <<dall, pend, pipe>>

NextNoData ==
    \/ HierarchyPass
    \/ EnrichmentRefused
    \/ EnrichmentOfOne

SpecNoData == Init /\ [][NextNoData]_vars

\* the fields of a document beside its error field
OtherFields(data) == DOMAIN data \ {"error"}

\* the document without its error field
WithoutError(f) == [f EXCEPT !.data = [k \in OtherFields(f.data) |-> f.data[k]]]

\* the store after the whole enrichment pass on the one document f
Enriched(G, f, run) == create_relationships(enrich_domains(G, <<f>>, run).G, <<f>>).G

\* C21: an enrichment document is no data exactly when it has an error field
\* and at most 3 other fields: the pass on such a document changes no node
\* property and creates no TRIGGERS edge and counts it as an error; a document
\* with an error field and 4 or more other fields is processed as the same
\* document without the error field is.
NoDataExactly ==
    [][last'.op = "enrichment" =>
          LET f == last'.input[1] IN
          IF "error" \in DOMAIN f.data /\ Cardinality(OtherFields(f.data)) <= 3
          THEN /\ nodes' = nodes
               /\ edges' = edges
               /\ last'.rep.error_count = 1
               /\ last'.rep.enriched_count = 0
               /\ last'.rep.triggers_count + last'.rep.triggered_by_count = 0
          ELSE /\ nodes' = Enriched(G0, WithoutError(f), last'.run).nodes
               /\ edges' = Enriched(G0, WithoutError(f), last'.run).edges
               /\ last'.rep.error_count = 0]_vars

\* a document with an error field and exactly 3 other fields, relations among
\* them, was passed over in a store that holds both service domains it names
NoDataAtTheLimit ==
    /\ last.op = "enrichment"
    /\ "error" \in DOMAIN last.input[1].data
    /\ Cardinality(OtherFields(last.input[1].data)) = 3
    /\ {"relations_service_domains", "role_definition"} \subseteq DOMAIN last.input[1].data
    /\ SdNodes(G0, "SD1") # {}
    /\ SdNodes(G0, "SD2") # {}
    /\ \A e \in DOMAIN edges : e[2] # "TRIGGERS"

(***************************************************************************)
(* The passes statement by statement: every run_cypher call of               *)
(* load_hierarchy and of load_yaml_to_neo4j is a step of its own, the pass   *)
(* in flight is kept in pend.                                                *)
(***************************************************************************)
\* the statements of load_yaml_to_neo4j in the order of its four loops; an
\* operation is two statements, the node's and the link's
YamlSteps(yaml_data, sd_object_id) ==
    LET crs == yaml_data.control_records
        bqs == yaml_data.behavior_qualifiers
        ops == yaml_data.operations
        schemas == yaml_data.schemas
        At(k, item) == [k |-> k, sd_object_id |-> sd_object_id,
                        sd_id |-> yaml_data.sd_id, item |-> item]
    IN  [i \in DOMAIN crs |-> At("CR", crs[i])]
        \o [i \in DOMAIN bqs |-> At("BQ", bqs[i])]
        \o Concat([i \in DOMAIN ops |-> <<At("OP", ops[i]), At("LINK", ops[i])>>])
        \o [i \in DOMAIN schemas |-> At("SCHEMA", schemas[i])]

\* one run_cypher call
WriteStep(G, s, run) ==
    CASE s.k = "BA"     -> WriteBA(G, s, run)
      [] s.k = "BD"     -> WriteBD(G, s, run)
      [] s.k = "SD"     -> WriteSD(G, s, run)
      [] s.k = "CR"     -> WriteCR(G, s.sd_object_id, s.item, run)
      [] s.k = "BQ"     -> WriteBQ(G, s.sd_object_id, s.item, run)
      [] s.k = "OP"     -> WriteOperation(G, s.sd_object_id, s.item, run)
      [] s.k = "LINK"   -> LinkOperation(G, s.sd_id, s.item)
      [] s.k = "SCHEMA" -> WriteSchema(G, s.sd_object_id, s.item, run)

\* titled as SD1 is named: a control record and a behavior qualifier, each
\* with its operation
YAB == [stem |-> S_Ab,
        spec |-> [info |-> [title |-> S_Ab],
                  paths |-> <<OpEntry("/acct", S_Post, S_TagCRAcct, S_InitiateAcct),
                              OpEntry("/fee", S_Get, S_TagBQFee, S_RetrieveFee)>>,
                  schemas |-> <<[name |-> S_Acct, def |-> [type |-> "object"]]>>]]

\* the document of YA after its operation was moved under a behavior qualifier
YARetagged ==
    [stem |-> S_Ab,
     spec |-> [info |-> [title |-> S_Ab],
               paths |-> <<OpEntry("/acct", S_Post, S_TagBQFee, S_InitiateAcct)>>]]

StepFiles == {YA, YB, YAB, YARetagged}

InFlight(op, steps, run) == Some([op |-> op, steps |-> steps, i |-> 1, run |-> run])

\* 01_load_hierarchy.py main up to the first statement of load_hierarchy
HierarchyStart ==
    /\ pend = None
    /\ clock < MaxRun
    /\ clock' = clock + 1
    /\ \E doc \in HierarchyDocs :
          /\ pend' = InFlight("hierarchy", HierarchySteps(doc), clock + 1)
          /\ last' = PassReport("hierarchy_start", clock + 1, doc, <<>>)
    /\ UNCHANGED <<nodes, edges, dall, pipe>>

\* load_all_yaml on one file, up to the first statement of load_yaml_to_neo4j
YamlStart ==
    /\ pend = None
    /\ clock < MaxRun
    /\ ~NoServiceDomain
    /\ clock' = clock + 1
    /\ \E f \in StepFiles, order \in Orders :
          LET yaml_data == parse_yaml_file(f)
              found == find_service_domain(G0, yaml_data.sd_name, order)
          IN  /\ pend' = IF found = None THEN None
                         ELSE InFlight("yaml", YamlSteps(yaml_data, found[1]), clock + 1)
              /\ last' = PassReport("yaml_start", clock + 1, <<f>>, found)
    /\ UNCHANGED <<nodes, edges, dall, pipe>>

\* the next statement of the pass in flight; one that raises ends the pass
Statement ==
    /\ pend # None
    /\ pend[1].i <= Len(pend[1].steps)
    /\ LET j == pend[1]
           s == j.steps[j.i]
       IN  IF j.op = "hierarchy" /\ StepRaises(s)
           THEN /\ pend' = None
                /\ last' = Report("raised", j.run, 0)
                /\ UNCHANGED <<nodes, edges>>
           ELSE /\ nodes' = WriteStep(G0, s, j.run).nodes
                /\ edges' = WriteStep(G0, s, j.run).edges
                /\ pend' = Some([j EXCEPT !.i = @ + 1])
                /\ last' = PassReport("statement", j.run, s, <<>>)
    /\ UNCHANGED <<clock, dall, pipe>>

\* the pass has run its last statement
PassEnd ==
    /\ pend # None
    /\ pend[1].i > Len(pend[1].steps)
    /\ pend' = None
    /\ last' = Report(pend[1].op, pend[1].run, 0)
    /\ UNCHANGED <<nodes, edges, clock, dall, pipe>>

NextSteps ==
    \/ HierarchyStart
    \/ YamlStart
    \/ Statement
    \/ PassEnd

SpecSteps == Init /\ [][NextSteps]_vars

\* a node of the label and key that this pass has merged
MergedInPass(G, label, prop, val, run) ==
    \E n \in Match(G, label, prop, val) : RunOf(n) = run

\* the control record or behavior qualifier an operation links to
TargetMerged(G, s, run) ==
    IF s.item.target_type = "CR"
    THEN MergedInPass(G, "BIANControlRecord", "id",
                      CrId(s.sd_id, s.item.target_name), run)
    ELSE MergedInPass(G, "BIANBehaviorQualifier", "id",
                      BqId(s.sd_id, s.item.target_name), run)

\* C22: within one pass every write that merges a child node or its
\* containment edge comes after the write that merges its parent: when the
\* statement of a BusinessDomain runs its BusinessArea has been merged by this
\* pass, when the statement of a ServiceDomain runs its BusinessDomain has,
\* and when a statement of an Operation runs the ControlRecord or
\* BehaviorQualifier it links to has.
ParentsFirst ==
    [][last'.op = "statement" =>
          LET s == last'.input
              run == last'.run
          IN  CASE s.k = "BD" -> MergedInPass(G0, "BusinessArea", "name", s.ba_name, run)
                [] s.k = "SD" -> MergedInPass(G0, "BusinessDomain", "name", s.bd_name, run)
                [] s.k \in {"OP", "LINK"} -> TargetMerged(G0, s, run)
                [] OTHER -> TRUE]_vars

\* the link of an operation to a behavior qualifier has run, in a pass that
\* wrote a control record too, over a hierarchy an earlier pass wrote
OperationLinkedInPass ==
    /\ last.op = "statement"
    /\ last.input.k = "LINK"
    /\ last.input.item.target_type = "BQ"
    /\ \E e \in DOMAIN edges : e[2] = "FOR_BQ"
    /\ \E n \in Labelled(G0, "BIANControlRecord") : RunOf(n) = last.run
    /\ \E n \in Labelled(G0, "BusinessDomain") : RunOf(n) < last.run

\* the stored service domains whose normalized name is the normalized candidate
SameNormalized(G, sd_name) ==
    {n \in ServiceDomains(G) : normalize_name(n.props["name"]) = normalize_name(sd_name)}

\* the stored service domains whose normalized name contains, or is contained
\* in, the first 15 characters of the normalized candidate
PrefixContained(G, sd_name) ==
    LET partial == Prefix(normalize_name(sd_name), PartialLen)
    IN  {n \in ServiceDomains(G) :
            \/ Contains(normalize_name(n.props["name"]), partial)
            \/ Contains(partial, normalize_name(n.props["name"]))}

\* C23: tiers 3 and 4 of find_service_domain compare the stored name in the
\* normalized form of the candidate: tier 3 matches a stored ServiceDomain
\* exactly when normalize_name(stored name) = normalize_name(candidate), tier
\* 4 exactly when normalize_name(stored name) contains, or is contained in,
\* the first 15 characters of normalize_name(candidate).
BothSidesNormalized ==
    last.op = "resolve" =>
        /\ NormalizedRows(G0, last.input.sd_name) = SameNormalized(G0, last.input.sd_name)
        /\ PartialRows(G0, last.input.sd_name) = PrefixContained(G0, last.input.sd_name)

\* a pass of 02_enrich_domains.py or of 03_load_yaml.py, refused or run
EnrichmentOrYaml == {"enrichment", "enrichment_refused", "yaml", "yaml_refused"}

\* C24: the enrichment pass and the API-spec pass check at their start that
\* at least one ServiceDomain node exists; with zero ServiceDomain nodes in
\* the store the pass stops there, before any write, and the store is left
\* as it was.
RefusedWithoutServiceDomain ==
    [][(Labelled(G0, "BIANServiceDomain") = {} /\ last'.op \in EnrichmentOrYaml) =>
          /\ last'.op \in {"enrichment_refused", "yaml_refused"}
          /\ nodes' = nodes
          /\ edges' = edges]_vars

\* the API-spec pass was refused on a store that holds nodes of the hierarchy
\* and no service domain
YamlRefusedOverAreas ==
    /\ last.op = "yaml_refused"
    /\ Labelled(G0, "BusinessArea") # {}
    /\ Labelled(G0, "BIANServiceDomain") = {}

TargetEdges(n) == {e \in DOMAIN edges : e[1] = n.id /\ e[2] \in {"FOR_CR", "FOR_BQ"}}

\* the service domains that contain the node of identity id
ContainersOf(id) ==
    {e[1] : e \in {x \in DOMAIN edges : x[3] = id /\ x[2] \in Containment}}

\* the edge type fits the label of the node it ends in
TargetFits(e) ==
    \E t \in nodes :
       /\ t.id = e[3]
       /\ t.label = IF e[2] = "FOR_CR" THEN "BIANControlRecord"
                    ELSE "BIANBehaviorQualifier"

\* C25: after any sequence of API-spec passes every Operation node has
\* exactly one outgoing target edge, a FOR_CR edge to a ControlRecord or a
\* FOR_BQ edge to a BehaviorQualifier, and that target is contained in the
\* ServiceDomain that contains the Operation.
OneTargetPerOperation ==
    pend = None =>
        \A n \in Labelled(G0, "BIANOperation") :
           /\ Cardinality(TargetEdges(n)) = 1
           /\ \A e \in TargetEdges(n) :
                 /\ edges[e] = 1
                 /\ TargetFits(e)
                 /\ ContainersOf(e[3]) = ContainersOf(n.id)

\* the labels of the nodes that have a parent in the hierarchy
ChildLabels == Labels \ {"BusinessArea"}

\* every node of G with a parent label has an incoming containment edge from
\* a node of G
NoOrphan(G) ==
    \A n \in G.nodes :
       n.label \in ChildLabels =>
          \E e \in DOMAIN G.edges, p \in G.nodes :
             e[2] \in Containment /\ e[3] = n.id /\ e[1] = p.id

\* C26: after any wipe (delete_all, delete_bian_only, delete_by_run_id) of a
\* store built by the three ingestion passes, every remaining BusinessDomain,
\* ServiceDomain, ControlRecord, BehaviorQualifier, Operation and Schema node
\* still has its incoming containment edge from a remaining parent: a wipe
\* leaves no orphaned child.
WipeLeavesNoOrphan ==
    [][(last'.op \in WipeOps /\ NoOrphan(G0)) => NoOrphan(G1)]_vars

\* the node of G with the identity of n
SameNode(G, n) == CHOOSE m \in G.nodes : m.id = n.id

\* C27: the enrichment pass (enrich_domains, then create_relationships)
\* creates no node, whatever object ids its documents and their triggers and
\* triggered_by declarations name: the nodes of every label are the same
\* after the pass as before, only properties of ServiceDomain nodes change,
\* and the only edges added are TRIGGERS edges between ServiceDomain nodes
\* that were there before.
EnrichmentCreatesNoNode ==
    [][last'.op = "enrichment" =>
          /\ {n.id : n \in nodes'} = {n.id : n \in nodes}
          /\ \A n \in nodes : /\ SameNode(G1, n).label = n.label
                              /\ n.label # "BIANServiceDomain" => n \in nodes'
          /\ \A e \in DOMAIN edges : e \in DOMAIN edges' /\ edges'[e] = edges[e]
          /\ \A e \in DOMAIN edges' \ DOMAIN edges :
                /\ e[2] = "TRIGGERS"
                /\ \E s \in Labelled(G0, "BIANServiceDomain") : s.id = e[1]
                /\ \E t \in Labelled(G0, "BIANServiceDomain") : t.id = e[3]]_vars

\* a pass whose documents name a service domain the store lacks, as the
\* document's own and as a declaration's, has run and added an edge
EnrichedNamingAbsent ==
    /\ last.op = "enrichment"
    /\ \E i \in DOMAIN last.input :
          \/ SdNodes(G0, last.input[i].object_id) = {}
          \/ \E kind \in {"triggers", "triggered_by"} :
                \E j \in DOMAIN Refs(last.input[i], kind) :
                   LET ref == Refs(last.input[i], kind)[j]
                   IN  Opt(ref, "object_id") # None /\ SdNodes(G0, ref.object_id) = {}
    /\ last.rep.enriched_count > 0
    /\ \E e \in DOMAIN edges : e[2] = "TRIGGERS"

(***************************************************************************)
(* extract_action_term on its own.                                          *)
(***************************************************************************)
S_x == <<"x">>

\* what operationIds are made of: action terms, an object's name, a filler
Pieces == {ACTION_TERMS[1], ACTION_TERMS[2], ACTION_TERMS[3], ACTION_TERMS[4],
           ACTION_TERMS[15], S_Acct, S_x, <<>>}

OperationIds == {a \o b : a \in Pieces, b \in Pieces}

InitTerm ==
    /\ nodes = {}
    /\ edges = NoEdges
    /\ clock = 0
    /\ last = Report("init", 0, 0)
    /\ dall = [pc |-> "idle", total |-> 0]
    /\ pipe = PipeOff
    /\ \E operation_id \in OperationIds : pend = Some(operation_id)

ExtractTerm ==
    /\ pend # None
    /\ last.op = "init"
    /\ last' = PassReport("extract_action_term", 0, pend[1], extract_action_term(pend[1]))
    /\ UNCHANGED <<nodes, edges, clock, dall, pend, pipe>>

NextTerm == ExtractTerm

SpecTerm == InitTerm /\ [][NextTerm]_vars

\* C28: for every operationId that starts with a known action term
\* extract_action_term returns the term it starts with, also when another
\* known term comes later in the operationId; an operationId that contains no
\* known term gives 'Unknown'.
TermItStartsWith ==
    last.op = "extract_action_term" =>
        /\ \A i \in DOMAIN ACTION_TERMS :
              StartsWith(last.input, ACTION_TERMS[i]) => last.rep = ACTION_TERMS[i]
        /\ (\A i \in DOMAIN ACTION_TERMS : ~Contains(last.input, ACTION_TERMS[i]))
              => last.rep = S_Unknown

=============================================================================
